---- MODULE Spec2Model ----
(***************************************************************************)
(* wallet-balance-cli: the chain clients (Bitcoin, Ethereum, Polygon,      *)
(* Arbitrum, Tron), their address validators and their unit conversion.    *)
(*                                                                         *)
(* Strings are TLA+ strings (Len, SubSeq and \o act on them character by   *)
(* character; the addresses of the model are ASCII, so a character is a    *)
(* byte).  Unsigned integers wider than 31 bits (u64 satoshi and sun       *)
(* totals, u128 wei amounts) are sequences of decimal digits, most         *)
(* significant first, without leading zeros; zero is <<0>>.                *)
(***************************************************************************)
EXTENDS Integers, Sequences, FiniteSets, TLC

VARIABLES
    pc,        \* where the lookup is: "idle", "send", "text", "json", "done"
    fn,        \* the entry point called
    args,      \* its arguments, as the caller gave them
    address,   \* the local `address` after normalization / trimming
    requests,  \* the HTTP requests sent so far, in order
    response,  \* the HTTP response received (status and body), or NoResponse
    phases,    \* the pipeline phases entered so far, in order
    locals,    \* the raw amount the handler extracted (balance_wei, balance_sats, balance_sun)
    result,    \* the value the entry point returned, or Pending
    vin,       \* validator harness: the string handed to the validator
    vfn,       \* validator harness: the validator applied
    vout,      \* validator harness: what it returned
    wei,       \* converter harness: the amount handed to wei_to_eth
    eth,       \* converter harness: the string it returned
    token,     \* parser harness: the string handed to Network::from_str
    parsed,    \* parser harness: what it returned
    tasks      \* joined lookups: the state of each of the futures polled together

vars == <<pc, fn, args, address, requests, response, phases, locals, result,
          vin, vfn, vout, wei, eth, token, parsed, tasks>>
lookupVars == <<pc, fn, args, address, requests, response, phases, locals, result>>
validatorVars == <<vin, vfn, vout>>
converterVars == <<wei, eth>>
parserVars == <<token, parsed>>
joinVars == <<tasks>>

(***************************************************************************)
(* Result<T, anyhow::Error>.  An error is the message its Display prints.  *)
(***************************************************************************)
Ok(v) == [ok |-> TRUE, val |-> v]
Err(m) == [ok |-> FALSE, err |-> m]

(***************************************************************************)
(* str                                                                     *)
(***************************************************************************)
CharAt(s, i) == SubSeq(s, i, i)

SliceFrom(s, i) == SubSeq(s, i + 1, Len(s))

starts_with(s, p) == Len(s) >= Len(p) /\ SubSeq(s, 1, Len(p)) = p

UpperCase == "ABCDEFGHIJKLMNOPQRSTUVWXYZ"
LowerCase == "abcdefghijklmnopqrstuvwxyz"

char_to_lowercase(c) ==
    IF \E i \in 1..Len(UpperCase) : CharAt(UpperCase, i) = c
    THEN CharAt(LowerCase, CHOOSE i \in 1..Len(UpperCase) : CharAt(UpperCase, i) = c)
    ELSE c

RECURSIVE to_lowercase(_)
to_lowercase(s) ==
    IF s = "" THEN ""
    ELSE IF Len(s) = 1 THEN char_to_lowercase(s)
         ELSE LET h == Len(s) \div 2
              IN  to_lowercase(SubSeq(s, 1, h)) \o to_lowercase(SliceFrom(s, h))

HexDigits == "0123456789abcdefABCDEF"

is_ascii_hexdigit(c) == \E i \in 1..Len(HexDigits) : CharAt(HexDigits, i) = c

all_hexdigit(s) == \A i \in 1..Len(s) : is_ascii_hexdigit(CharAt(s, i))

RECURSIVE trim_start_matches(_, _)
trim_start_matches(s, p) ==
    IF p # "" /\ starts_with(s, p) THEN trim_start_matches(SliceFrom(s, Len(p)), p)
    ELSE s

\* s without its longest suffix made of the character c
trim_end_matches(s, c) ==
    IF \A i \in 1..Len(s) : CharAt(s, i) = c THEN ""
    ELSE LET k == CHOOSE i \in 1..Len(s) :
                      CharAt(s, i) # c /\ \A j \in (i + 1)..Len(s) : CharAt(s, j) = c
         IN  SubSeq(s, 1, k)

WhiteSpace == {" ", "\t", "\n", "\r"}

\* str::trim: s without leading and trailing white space
trim(s) ==
    IF \A i \in 1..Len(s) : CharAt(s, i) \in WhiteSpace THEN ""
    ELSE LET first == CHOOSE i \in 1..Len(s) :
                          CharAt(s, i) \notin WhiteSpace
                          /\ \A j \in 1..(i - 1) : CharAt(s, j) \in WhiteSpace
             last == CHOOSE i \in 1..Len(s) :
                         CharAt(s, i) \notin WhiteSpace
                         /\ \A j \in (i + 1)..Len(s) : CharAt(s, j) \in WhiteSpace
         IN  SubSeq(s, first, last)

\* n copies of c
RECURSIVE Repeat(_, _)
Repeat(c, n) ==
    IF n = 0 THEN ""
    ELSE IF n = 1 THEN c
         ELSE Repeat(c, n \div 2) \o Repeat(c, n - (n \div 2))

(***************************************************************************)
(* EVM address validation: ethereum_wallet, polygon_wallet and             *)
(* arbitrum_wallet hold the same two functions, which differ in the chain  *)
(* name of their messages only.                                            *)
(***************************************************************************)
EvmChains == {"Ethereum", "Polygon", "Arbitrum"}

normalize_address_KeepCase(chain, a) ==
    IF a = "" THEN Err(chain \o " address cannot be empty")
    ELSE IF starts_with(a, "0x") \/ starts_with(a, "0X")
         THEN Ok(a)
         ELSE Ok("0x" \o a)

normalize_address(chain, a) ==
    IF a = "" THEN Err(chain \o " address cannot be empty")
    ELSE IF starts_with(a, "0x") \/ starts_with(a, "0X")
         THEN Ok(to_lowercase(a))
         ELSE Ok("0x" \o to_lowercase(a))

evm_validate_address_NoLength(chain, a) ==
    IF ~starts_with(a, "0x") THEN Err(chain \o " address must start with 0x")
    ELSE IF ~all_hexdigit(SliceFrom(a, 2))
         THEN Err(chain \o " address contains invalid hex characters")
         ELSE Ok("unit")

evm_validate_address(chain, a) ==
    IF ~starts_with(a, "0x") THEN Err(chain \o " address must start with 0x")
    ELSE IF Len(a) # 42
         THEN Err("Invalid " \o chain \o " address length (expected 42 characters)")
         ELSE IF ~all_hexdigit(SliceFrom(a, 2))
              THEN Err(chain \o " address contains invalid hex characters")
              ELSE Ok("unit")

(***************************************************************************)
(* Bitcoin address validation                                              *)
(***************************************************************************)
bitcoin_validate_address_NoUpper(a) ==
    IF a = "" THEN Err("Bitcoin address cannot be empty")
    ELSE IF Len(a) < 26
         THEN Err("Invalid Bitcoin address length")
         ELSE IF ~starts_with(a, "1") /\ ~starts_with(a, "3") /\ ~starts_with(a, "bc1")
              THEN Err("Invalid Bitcoin address format (must start with 1, 3, or bc1)")
              ELSE Ok("unit")

bitcoin_validate_address(a) ==
    IF a = "" THEN Err("Bitcoin address cannot be empty")
    ELSE IF Len(a) < 26 \/ Len(a) > 62
         THEN Err("Invalid Bitcoin address length")
         ELSE IF ~starts_with(a, "1") /\ ~starts_with(a, "3") /\ ~starts_with(a, "bc1")
              THEN Err("Invalid Bitcoin address format (must start with 1, 3, or bc1)")
              ELSE Ok("unit")

(***************************************************************************)
(* Unsigned integers as decimal digit sequences (u64, u128).               *)
(***************************************************************************)
\* e, with v evaluated first (the evaluation of a long chain of operations
\* then nests no deeper than one of them)
Strict(v, e) == IF v = v THEN e ELSE e

\* a function over 1..n made a sequence value
Seq0(f) == f \o <<>>

\* without leading zeros; zero is <<0>>
BigNorm(a) ==
    IF \A i \in 1..Len(a) : a[i] = 0 THEN <<0>>
    ELSE LET k == CHOOSE i \in 1..Len(a) : a[i] # 0 /\ \A j \in 1..(i - 1) : a[j] = 0
         IN  SubSeq(a, k, Len(a))

BigZero == <<0>>

BigPad(a, n) == Seq0([i \in 1..(n - Len(a)) |-> 0]) \o a

\* -1, 0 or 1 as a < b, a = b or a > b (both without leading zeros)
BigCmp(a, b) ==
    IF Len(a) < Len(b) THEN -1
    ELSE IF Len(a) > Len(b) THEN 1
         ELSE IF a = b THEN 0
              ELSE LET At(k) == IF a[k] < b[k] THEN -1 ELSE 1
                   IN  At(CHOOSE i \in 1..Len(a) :
                              a[i] # b[i] /\ \A j \in 1..(i - 1) : a[j] = b[j])

BigLt(a, b) == BigCmp(a, b) < 0
BigLe(a, b) == BigCmp(a, b) <= 0

\* a + b, digit by digit; the carry into a digit comes from the nearest digit
\* to its right whose sum is not 9, when that sum is 10 or more
BigAdd(a, b) ==
    LET Padded(x, y, n) ==
            LET carry(i) ==
                    IF \E j \in (i + 1)..n :
                           x[j] + y[j] >= 10 /\ \A k \in (i + 1)..(j - 1) : x[k] + y[k] = 9
                    THEN 1 ELSE 0
            IN  BigNorm(Seq0([i \in 1..n |-> (x[i] + y[i] + carry(i)) % 10]))
        Width(n) == Padded(BigPad(a, n), BigPad(b, n), n)
    IN  Width((IF Len(a) > Len(b) THEN Len(a) ELSE Len(b)) + 1)

\* a - b for a >= b, digit by digit with the borrow found the same way
BigSub(a, b) ==
    LET Padded(y, n) ==
            LET borrow(i) ==
                    IF \E j \in (i + 1)..n :
                           a[j] < y[j] /\ \A k \in (i + 1)..(j - 1) : a[k] = y[k]
                    THEN 1 ELSE 0
            IN  BigNorm(Seq0([i \in 1..n |-> (a[i] - y[i] - borrow(i) + 10) % 10]))
    IN  Padded(BigPad(b, Len(a)), Len(a))

\* 2 * a: a digit of 5 or more carries one into the digit to its left
BigDouble(a) ==
    LET Padded(x, n) ==
            BigNorm(Seq0([i \in 1..n |->
                ((2 * x[i]) % 10) + (IF i < n /\ x[i + 1] >= 5 THEN 1 ELSE 0)]))
    IN  Padded(BigPad(a, Len(a) + 1), Len(a) + 1)

BigMul16(a) == BigDouble(BigDouble(BigDouble(BigDouble(a))))

\* a * q for a digit q (or 10), from doublings and additions
BigMulDigit(a, q) ==
    LET Sum(a2, a4, a8) ==
            LET Plus4(p2) ==
                    LET Plus8(p4) == IF q >= 8 THEN BigAdd(p4, a8) ELSE p4
                    IN  Plus8(IF (q \div 4) % 2 = 1 THEN BigAdd(p2, a4) ELSE p2)
                Plus2(p1) == Plus4(IF (q \div 2) % 2 = 1 THEN BigAdd(p1, a2) ELSE p1)
            IN  Plus2(IF q % 2 = 1 THEN a ELSE BigZero)
    IN  Sum(BigDouble(a), BigDouble(BigDouble(a)), BigDouble(BigDouble(BigDouble(a))))

\* a number below 100 as digits
BigOfSmall(k) == IF k < 10 THEN <<k>> ELSE <<k \div 10, k % 10>>

\* how many times b goes into r, for r < 10 * b
BigQuotDigit(r, b) ==
    CHOOSE q \in 0..9 :
        /\ BigLe(BigMulDigit(b, q), r)
        /\ BigLt(r, BigMulDigit(b, q + 1))

\* one step of the long division of a by b, at digit i: st is <<quotient so
\* far, remainder so far>>
BigDivStep(a, b, i, st) ==
    LET Digit(r) ==
            LET Put(q) == <<st[1] \o <<q>>, BigSub(r, BigMulDigit(b, q))>>
            IN  Put(BigQuotDigit(r, b))
    IN  Digit(BigNorm(st[2] \o <<a[i]>>))

\* the steps at digits lo..hi, the first half before the second
RECURSIVE BigDivSteps(_, _, _, _, _)
BigDivSteps(a, b, lo, hi, st) ==
    IF lo > hi THEN st
    ELSE IF lo = hi THEN BigDivStep(a, b, lo, st)
         ELSE LET mid == (lo + hi) \div 2
                  Then(h) == Strict(h, BigDivSteps(a, b, mid + 1, hi, h))
              IN  Then(BigDivSteps(a, b, lo, mid, st))

\* <<a / b, a % b>> by long division, b > 0
BigDivMod(a, b) ==
    LET Pair(st) == <<BigNorm(st[1]), st[2]>>
    IN  Pair(BigDivSteps(a, b, 1, Len(a), <<<<>>, <<0>>>>))
BigDiv(a, b) == BigDivMod(a, b)[1]
BigMod(a, b) == BigDivMod(a, b)[2]

DecDigits == "0123456789"

\* Display of an unsigned integer
RECURSIVE to_string(_)
to_string(a) ==
    IF Len(a) = 0 THEN ""
    ELSE IF Len(a) = 1 THEN CharAt(DecDigits, a[1] + 1)
         ELSE LET h == Len(a) \div 2
              IN  to_string(SubSeq(a, 1, h)) \o to_string(SubSeq(a, h + 1, Len(a)))

\* format!("{:0w}", a)
format_zero_padded(a, w) ==
    LET Padded(s) == IF Len(s) >= w THEN s ELSE Repeat("0", w - Len(s)) \o s
    IN  Padded(to_string(a))

U64_MAX == <<1,8,4,4,6,7,4,4,0,7,3,7,0,9,5,5,1,6,1,5>>
U128_MAX ==
    <<3,4,0,2,8,2,3,6,6,9,2,0,9,3,8,4,6,3,4,6,3,3,7,4,6,0,7,4,3,1,7,6,8,2,1,1,4,5,5>>

(***************************************************************************)
(* EVM amounts: parse_hex_to_u128 and wei_to_eth (the same in the three    *)
(* EVM modules)                                                            *)
(***************************************************************************)
LowerHexDigits == "0123456789abcdef"

hex_value(c) ==
    (CHOOSE i \in 1..16 : CharAt(LowerHexDigits, i) = char_to_lowercase(c)) - 1

\* one digit of the parse: acc is the Result so far
from_str_radix_16_Step(s, i, acc) ==
    IF ~acc.ok THEN acc
    ELSE IF ~is_ascii_hexdigit(CharAt(s, i)) THEN Err("invalid digit found in string")
         ELSE LET Checked(next) ==
                      IF BigLt(U128_MAX, next)
                      THEN Err("number too large to fit in target type")
                      ELSE Ok(next)
              IN  Checked(BigAdd(BigMul16(acc.val), BigOfSmall(hex_value(CharAt(s, i)))))

\* the digits lo..hi in order, the first half before the second
RECURSIVE from_str_radix_16_Steps(_, _, _, _)
from_str_radix_16_Steps(s, lo, hi, acc) ==
    IF lo > hi THEN acc
    ELSE IF lo = hi THEN from_str_radix_16_Step(s, lo, acc)
         ELSE LET mid == (lo + hi) \div 2
                  Then(h) == Strict(h, from_str_radix_16_Steps(s, mid + 1, hi, h))
              IN  Then(from_str_radix_16_Steps(s, lo, mid, acc))

from_str_radix_16_At(s, i, acc) == from_str_radix_16_Steps(s, i, Len(s), Ok(acc))

\* u128::from_str_radix(s, 16)
u128_from_str_radix_16(s) ==
    IF s = "" THEN Err("cannot parse integer from empty string")
    ELSE IF s = "+" \/ s = "-" THEN Err("invalid digit found in string")
         ELSE IF CharAt(s, 1) = "+" THEN from_str_radix_16_At(SliceFrom(s, 1), 1, BigZero)
              ELSE from_str_radix_16_At(s, 1, BigZero)

parse_hex_to_u128(hex_str) ==
    LET Context(r) == IF r.ok THEN r ELSE Err("Failed to parse hex balance value")
    IN  Context(u128_from_str_radix_16(trim_start_matches(hex_str, "0x")))

WEI_PER_ETH == <<1,0,0,0,0,0,0,0,0,0,0,0,0,0,0,0,0,0,0>>

wei_to_eth_NoPad(w) ==
    IF w = BigZero THEN "0"
    ELSE LET Parts(eth_whole, eth_fraction) ==
                 IF eth_fraction = BigZero THEN to_string(eth_whole)
                 ELSE to_string(eth_whole) \o "." \o trim_end_matches(to_string(eth_fraction), "0")
         IN  Parts(BigDiv(w, WEI_PER_ETH), BigMod(w, WEI_PER_ETH))

wei_to_eth_NoTrim(w) ==
    IF w = BigZero THEN "0"
    ELSE LET Parts(eth_whole, eth_fraction) ==
                 IF eth_fraction = BigZero THEN to_string(eth_whole)
                 ELSE to_string(eth_whole) \o "." \o format_zero_padded(eth_fraction, 18)
         IN  Parts(BigDiv(w, WEI_PER_ETH), BigMod(w, WEI_PER_ETH))

wei_to_eth(w) ==
    IF w = BigZero THEN "0"
    ELSE LET Parts(eth_whole, eth_fraction) ==
                 IF eth_fraction = BigZero THEN to_string(eth_whole)
                 ELSE LET fraction_str == format_zero_padded(eth_fraction, 18)
                          trimmed == trim_end_matches(fraction_str, "0")
                      IN  to_string(eth_whole) \o "." \o trimmed
         IN  Parts(BigDiv(w, WEI_PER_ETH), BigMod(w, WEI_PER_ETH))

(***************************************************************************)
(* Small integers (HTTP status codes, i32 JSON-RPC error codes) as text    *)
(***************************************************************************)
RECURSIVE nat_to_string(_)
nat_to_string(n) ==
    IF n < 10 THEN CharAt(DecDigits, n + 1)
    ELSE nat_to_string(n \div 10) \o CharAt(DecDigits, (n % 10) + 1)

\* http::StatusCode: Display prints the code and its canonical reason
canonical_reason(status) ==
    CASE status = 200 -> "OK"
      [] status = 204 -> "No Content"
      [] status = 404 -> "Not Found"
      [] status = 429 -> "Too Many Requests"
      [] status = 500 -> "Internal Server Error"
      [] OTHER -> "<unknown status code>"

status_to_string(status) == nat_to_string(status) \o " " \o canonical_reason(status)

is_success_Always(status) == TRUE

\* StatusCode::is_success
is_success(status) == 200 <= status /\ status < 300

(***************************************************************************)
(* JSON documents and their deserialization (serde) into the response      *)
(* structs.  A body is unreadable (the read of the body fails), text that  *)
(* is no JSON, or a JSON object; an object is a record of JSON values.     *)
(***************************************************************************)
JNull == [t |-> "null"]
JStr(s) == [t |-> "str", v |-> s]
JInt(neg, digits) == [t |-> "int", neg |-> neg, v |-> digits]
JBool(b) == [t |-> "bool", v |-> b]
JObj(o) == [t |-> "obj", v |-> o]
JArr(a) == [t |-> "arr", v |-> a]
NotJson == [t |-> "notjson"]
EmptyObject == JObj(<<>>)

Body(raw, doc) == [readable |-> TRUE, raw |-> raw, doc |-> doc]
UnreadableBody == [readable |-> FALSE, raw |-> "", doc |-> NotJson]

\* Response::text().await.unwrap_or_default()
text_or_default(body) == IF body.readable THEN body.raw ELSE ""

None == [some |-> FALSE]
Some(v) == [some |-> TRUE, val |-> v]
unwrap_or(o, d) == IF o.some THEN o.val ELSE d

Has(o, k) == k \in DOMAIN o.v

\* an Option<T> field: absent or null is None
OptionalField(o, k) == IF Has(o, k) /\ o.v[k] # JNull THEN Some(o.v[k]) ELSE None

de_u64(j) ==
    IF j.t = "int" /\ (~j.neg \/ j.v = BigZero) /\ BigLe(j.v, U64_MAX) THEN Ok(j.v)
    ELSE Err("invalid type or value, expected u64")

I32_MAX == <<2,1,4,7,4,8,3,6,4,7>>

de_i32(j) ==
    IF j.t = "int" /\ (BigLe(j.v, I32_MAX) \/ (j.neg /\ BigLe(j.v, BigAdd(I32_MAX, <<1>>))))
    THEN Ok([neg |-> j.neg /\ j.v # BigZero, v |-> j.v])
    ELSE Err("invalid type or value, expected i32")

\* Display of an i32
i32_display(c) == (IF c.neg THEN "-" ELSE "") \o to_string(c.v)

\* struct JsonRpcError { code: i32, message: String }
de_JsonRpcError(j) ==
    IF j.t # "obj" THEN Err("invalid type, expected struct JsonRpcError")
    ELSE IF ~Has(j, "code") THEN Err("missing field code")
    ELSE LET Fields(code) ==
                 IF ~code.ok THEN Err("invalid type, expected i32")
                 ELSE IF ~Has(j, "message") THEN Err("missing field message")
                 ELSE IF j.v["message"].t # "str" THEN Err("invalid type, expected a string")
                 ELSE Ok([code |-> code.val, message |-> j.v["message"].v])
         IN  Fields(de_i32(j.v["code"]))

\* struct JsonRpcResponse { result: Option<String>, error: Option<JsonRpcError> }
de_JsonRpcResponse(body) ==
    IF ~body.readable THEN Err("error decoding response body")
    ELSE IF body.doc.t # "obj" THEN Err("error decoding response body")
    ELSE LET Fields(r, e) ==
                 IF r.some /\ r.val.t # "str" THEN Err("error decoding response body")
                 ELSE IF ~e.some
                 THEN Ok([result |-> IF r.some THEN Some(r.val.v) ELSE None, error |-> None])
                 ELSE LET WithError(err) ==
                              IF ~err.ok THEN Err("error decoding response body")
                              ELSE Ok([result |-> IF r.some THEN Some(r.val.v) ELSE None,
                                       error |-> Some(err.val)])
                      IN  WithError(de_JsonRpcError(e.val))
         IN  Fields(OptionalField(body.doc, "result"), OptionalField(body.doc, "error"))

\* struct BlockstreamResponse { chain_stats: ChainStats }
\* struct ChainStats { funded_txo_sum: u64, spent_txo_sum: u64 }
de_BlockstreamResponse(body) ==
    IF ~body.readable THEN Err("error decoding response body")
    ELSE IF body.doc.t # "obj" THEN Err("error decoding response body")
    ELSE IF ~Has(body.doc, "chain_stats") THEN Err("error decoding response body")
    ELSE LET cs == body.doc.v["chain_stats"]
         IN  IF cs.t # "obj" THEN Err("error decoding response body")
             ELSE IF ~Has(cs, "funded_txo_sum") \/ ~Has(cs, "spent_txo_sum")
                  THEN Err("error decoding response body")
             ELSE IF ~de_u64(cs.v["funded_txo_sum"]).ok \/ ~de_u64(cs.v["spent_txo_sum"]).ok
                  THEN Err("error decoding response body")
             ELSE Ok([chain_stats |->
                        [funded_txo_sum |-> cs.v["funded_txo_sum"].v,
                         spent_txo_sum |-> cs.v["spent_txo_sum"].v]])

\* struct AccountData { balance: Option<u64> }
de_AccountData(j) ==
    IF j.t # "obj" THEN Err("invalid type, expected struct AccountData")
    ELSE LET Field(b) ==
                 IF b.some /\ ~de_u64(b.val).ok THEN Err("invalid type, expected u64")
                 ELSE Ok([balance |-> IF b.some THEN Some(b.val.v) ELSE None])
         IN  Field(OptionalField(j, "balance"))

\* struct AccountResponse { success: bool, data: Vec<AccountData> }
de_AccountResponse(body) ==
    IF ~body.readable THEN Err("error decoding response body")
    ELSE IF body.doc.t # "obj" THEN Err("error decoding response body")
    ELSE IF ~Has(body.doc, "success") \/ ~Has(body.doc, "data")
         THEN Err("error decoding response body")
    ELSE LET sc == body.doc.v["success"]
             d == body.doc.v["data"]
         IN  IF sc.t # "bool" \/ d.t # "arr" THEN Err("error decoding response body")
             ELSE LET Records(rs) ==
                          IF \E i \in 1..Len(rs) : ~rs[i].ok
                          THEN Err("error decoding response body")
                          ELSE Ok([success |-> sc.v,
                                   data |-> [i \in 1..Len(rs) |-> rs[i].val]])
                  IN  Records([i \in 1..Len(d.v) |-> de_AccountData(d.v[i])])

(***************************************************************************)
(* f64: `x as f64`, `/` and `{:.N}`.  A finite non-negative f64 is the     *)
(* pair [m, k] of its value m / 2^k; every rounding is to nearest, ties to *)
(* even, as IEEE 754 and core::fmt do it.                                  *)
(***************************************************************************)
BigIsOdd(a) == a[Len(a)] % 2 = 1

\* a / 2, rounded down: a digit takes ten from an odd digit to its left
BigHalve(a) ==
    BigNorm(Seq0([i \in 1..Len(a) |->
        (a[i] + (IF i > 1 /\ a[i - 1] % 2 = 1 THEN 10 ELSE 0)) \div 2]))

\* a * 2^(2^j): the doubling done 2^j times, half of them after the other half
RECURSIVE BigShlPow(_, _)
BigShlPow(a, j) ==
    IF j = 0 THEN BigDouble(a)
    ELSE LET Then(h) == Strict(h, BigShlPow(h, j - 1)) IN Then(BigShlPow(a, j - 1))

\* a * 2^k for k < 2^(j + 1), bit j of k first
RECURSIVE BigShlBits(_, _, _)
BigShlBits(a, k, j) ==
    IF j < 0 THEN a
    ELSE IF k >= 2^j
         THEN LET Then(h) == Strict(h, BigShlBits(h, k - 2^j, j - 1)) IN Then(BigShlPow(a, j))
         ELSE BigShlBits(a, k, j - 1)

\* a * 2^k, k < 256
BigShl(a, k) == BigShlBits(a, k, 7)

RECURSIVE BigShrPow(_, _)
BigShrPow(a, j) ==
    IF j = 0 THEN BigHalve(a)
    ELSE LET Then(h) == Strict(h, BigShrPow(h, j - 1)) IN Then(BigShrPow(a, j - 1))

RECURSIVE BigShrBits(_, _, _)
BigShrBits(a, k, j) ==
    IF j < 0 THEN a
    ELSE IF k >= 2^j
         THEN LET Then(h) == Strict(h, BigShrBits(h, k - 2^j, j - 1)) IN Then(BigShrPow(a, j))
         ELSE BigShrBits(a, k, j - 1)

\* a / 2^k, rounded down, k < 256
BigShr(a, k) == BigShrBits(a, k, 7)

BigPow10(p) == <<1>> \o Seq0([i \in 1..p |-> 0])

POW2_53 == <<9,0,0,7,1,9,9,2,5,4,7,4,0,9,9,2>>

\* q, or q + 1 when the remainder r of a division by d is above d / 2, or is
\* d / 2 and q is odd
RoundHalfEven(q, r, d) ==
    LET Round(twice) ==
            IF BigLt(d, twice) \/ (twice = d /\ BigIsOdd(q)) THEN BigAdd(q, <<1>>) ELSE q
    IN  Round(BigDouble(r))

\* n as f64 for a u64 n: the nearest value with 53 significant bits
u64_as_f64(n) ==
    IF BigLt(n, POW2_53) THEN [m |-> n, k |-> 0]
    ELSE LET Shifted(s) ==
                 LET Rounded(q) ==
                         [m |-> BigShl(RoundHalfEven(q, BigSub(n, BigShl(q, s)),
                                                     BigShl(<<1>>, s)), s),
                          k |-> 0]
                 IN  Rounded(BigShr(n, s))
         IN  Shifted(CHOOSE s \in 1..11 :
                         /\ BigLt(BigShr(n, s), POW2_53)
                         /\ ~BigLt(BigShr(n, s - 1), POW2_53))

\* <<y * 2^k, k>> for the largest k with y * 2^k below limit (0 < y < limit,
\* k < 2^(j + 1)), found bit by bit
RECURSIVE ScaleBelowBits(_, _, _, _)
ScaleBelowBits(y, k, limit, j) ==
    IF j < 0 THEN <<y, k>>
    ELSE LET Try(d, k1) ==
                 IF BigLt(d, limit) THEN Strict(k1, ScaleBelowBits(d, k1, limit, j - 1))
                 ELSE ScaleBelowBits(y, k, limit, j - 1)
         IN  Try(BigShlPow(y, j), k + 2^j)

ScaleBelow(y, limit) == ScaleBelowBits(y, 0, limit, 7)

\* x / d for an integer-valued f64 x below 2^53 * d and a whole d: the
\* quotient rounded to 53 significant bits
f64_div(x, d) ==
    IF x.m = BigZero THEN [m |-> BigZero, k |-> 0]
    ELSE LET Scaled(sc) ==
                 LET Rounded(qr) == [m |-> RoundHalfEven(qr[1], qr[2], d), k |-> sc[2]]
                 IN  Rounded(BigDivMod(sc[1], d))
         IN  Scaled(ScaleBelow(x.m, BigShl(d, 53)))

\* format!("{:.p}", x)
format_f64_fixed(x, p) ==
    LET Point(s) == SubSeq(s, 1, Len(s) - p) \o "." \o SubSeq(s, Len(s) - p + 1, Len(s))
        Scaled(y) ==
            LET Rounded(q) ==
                    Point(format_zero_padded(
                            RoundHalfEven(q, BigSub(y, BigShl(q, x.k)), BigShl(<<1>>, x.k)),
                            p + 1))
            IN  Rounded(BigShr(y, x.k))
    IN  Scaled(IF x.m = BigZero THEN BigZero ELSE x.m \o Seq0([i \in 1..p |-> 0]))

SATS_PER_BTC == <<1,0,0,0,0,0,0,0,0>>
SUN_PER_TRX == <<1,0,0,0,0,0,0>>

(***************************************************************************)
(* SHA-256 (sha2::Sha256).  A 32-bit word is the pair <<hi, lo>> of its    *)
(* 16-bit halves; a byte is a number in 0..255.                            *)
(***************************************************************************)
\* ^ and & on 4-bit and 16-bit numbers, bit by bit
Xor4(a, b) ==
    ((a + b) % 2) + 2 * (((a \div 2) + (b \div 2)) % 2)
    + 4 * (((a \div 4) + (b \div 4)) % 2) + 8 * (((a \div 8) + (b \div 8)) % 2)

And4(a, b) ==
    ((a % 2) * (b % 2)) + 2 * (((a \div 2) % 2) * ((b \div 2) % 2))
    + 4 * (((a \div 4) % 2) * ((b \div 4) % 2)) + 8 * ((a \div 8) * (b \div 8))

Xor16(a, b) ==
    Xor4(a % 16, b % 16) + 16 * Xor4((a \div 16) % 16, (b \div 16) % 16)
    + 256 * Xor4((a \div 256) % 16, (b \div 256) % 16)
    + 4096 * Xor4(a \div 4096, b \div 4096)

And16(a, b) ==
    And4(a % 16, b % 16) + 16 * And4((a \div 16) % 16, (b \div 16) % 16)
    + 256 * And4((a \div 256) % 16, (b \div 256) % 16)
    + 4096 * And4(a \div 4096, b \div 4096)

WXor(x, y) == <<Xor16(x[1], y[1]), Xor16(x[2], y[2])>>
WAnd(x, y) == <<And16(x[1], y[1]), And16(x[2], y[2])>>
WNot(x) == <<65535 - x[1], 65535 - x[2]>>

\* wrapping_add
WAdd(x, y) ==
    LET lo == x[2] + y[2]
        hi == x[1] + y[1] + (lo \div 65536)
    IN  <<hi % 65536, lo % 65536>>

\* rotate_right(n), 0 < n < 32
WRotr(x, n) ==
    LET h == IF n >= 16 THEN x[2] ELSE x[1]
        l == IF n >= 16 THEN x[1] ELSE x[2]
        p == 2^(n % 16)
        q == 65536 \div p
    IN  <<(h \div p) + (((l % p) * q) % 65536), (l \div p) + (((h % p) * q) % 65536)>>

\* x >> n, 0 < n < 16
WShr(x, n) ==
    LET p == 2^n
        q == 65536 \div p
    IN  <<x[1] \div p, (x[2] \div p) + ((x[1] % p) * q)>>

SHA_Ch(e, f, g) == WXor(WAnd(e, f), WAnd(WNot(e), g))
SHA_Maj(a, b, c) == WXor(WXor(WAnd(a, b), WAnd(a, c)), WAnd(b, c))
SHA_BigSigma0(a) == WXor(WXor(WRotr(a, 2), WRotr(a, 13)), WRotr(a, 22))
SHA_BigSigma1(e) == WXor(WXor(WRotr(e, 6), WRotr(e, 11)), WRotr(e, 25))
SHA_SmallSigma0(x) == WXor(WXor(WRotr(x, 7), WRotr(x, 18)), WShr(x, 3))
SHA_SmallSigma1(x) == WXor(WXor(WRotr(x, 17), WRotr(x, 19)), WShr(x, 10))

SHA_K ==
<<
    <<17034, 12184>>, <<28983, 17553>>, <<46528, 64463>>, <<59829, 56229>>,
    <<14678, 49755>>, <<23025, 4593>>, <<37439, 33444>>, <<43804, 24277>>,
    <<55303, 43672>>, <<4739, 23297>>, <<9265, 34238>>, <<21772, 32195>>,
    <<29374, 23924>>, <<32990, 45566>>, <<39900, 1703>>, <<49563, 61812>>,
    <<58523, 27073>>, <<61374, 18310>>, <<4033, 40390>>, <<9228, 41420>>,
    <<11753, 11375>>, <<19060, 33962>>, <<23728, 43484>>, <<30457, 35034>>,
    <<38974, 20818>>, <<43057, 50797>>, <<45059, 10184>>, <<48985, 32711>>,
    <<50912, 3059>>, <<54695, 37191>>, <<1738, 25425>>, <<5161, 10599>>,
    <<10167, 2693>>, <<11803, 8504>>, <<19756, 28156>>, <<21304, 3347>>,
    <<25866, 29524>>, <<30314, 2747>>, <<33218, 51502>>, <<37490, 11397>>,
    <<41663, 59553>>, <<43034, 26187>>, <<49739, 35696>>, <<51052, 20899>>,
    <<53650, 59417>>, <<54937, 1572>>, <<62478, 13701>>, <<4202, 41072>>,
    <<6564, 49430>>, <<7735, 27656>>, <<10056, 30540>>, <<13488, 48309>>,
    <<14620, 3251>>, <<20184, 43594>>, <<23452, 51791>>, <<26670, 28659>>,
    <<29839, 33518>>, <<30885, 25455>>, <<33992, 30740>>, <<36039, 520>>,
    <<37054, 65530>>, <<42064, 27883>>, <<48889, 41975>>, <<50801, 30962>> >>

SHA_H0 ==
<<
    <<27145, 58983>>, <<47975, 44677>>, <<15470, 62322>>, <<42319, 62778>>,
    <<20750, 21119>>, <<39685, 26764>>, <<8067, 55723>>, <<23520, 52505>> >>

\* the padded message of a message below 56 bytes: one block of 64 bytes
SHA_Pad(msg) ==
    LET n == Len(msg)
    IN  msg \o <<128>> \o Seq0([i \in 1..(55 - n) |-> 0])
        \o <<0, 0, 0, 0, 0, 0, (8 * n) \div 256, (8 * n) % 256>>

\* the 16 words of a block, big-endian
SHA_BlockWords(blk) ==
    Seq0([t \in 1..16 |-> <<blk[4 * t - 3] * 256 + blk[4 * t - 2],
                            blk[4 * t - 1] * 256 + blk[4 * t]>>])

\* the message schedule extended by the words lo..hi (w[t] is word t - 1)
RECURSIVE SHA_Schedule(_, _, _)
SHA_Schedule(w, lo, hi) ==
    IF lo > hi THEN w
    ELSE IF lo = hi
         THEN w \o <<WAdd(WAdd(SHA_SmallSigma1(w[lo - 2]), w[lo - 7]),
                          WAdd(SHA_SmallSigma0(w[lo - 15]), w[lo - 16]))>>
         ELSE LET mid == (lo + hi) \div 2
                  Then(h) == Strict(h, SHA_Schedule(h, mid + 1, hi))
              IN  Then(SHA_Schedule(w, lo, mid))

\* one round of the compression, on the working variables <<a, ..., h>>
SHA_Round(v, w, t) ==
    LET Shift(t1, t2) ==
            <<WAdd(t1, t2), v[1], v[2], v[3], WAdd(v[4], t1), v[5], v[6], v[7]>>
    IN  Shift(WAdd(WAdd(WAdd(v[8], SHA_BigSigma1(v[5])), SHA_Ch(v[5], v[6], v[7])),
                   WAdd(SHA_K[t], w[t])),
              WAdd(SHA_BigSigma0(v[1]), SHA_Maj(v[1], v[2], v[3])))

RECURSIVE SHA_Rounds(_, _, _, _)
SHA_Rounds(v, w, lo, hi) ==
    IF lo = hi THEN SHA_Round(v, w, lo)
    ELSE LET mid == (lo + hi) \div 2
             Then(h) == Strict(h, SHA_Rounds(h, w, mid + 1, hi))
         IN  Then(SHA_Rounds(v, w, lo, mid))

SHA_Compress(state, blk) ==
    LET Sum(v) == Strict(v, Seq0([i \in 1..8 |-> WAdd(state[i], v[i])]))
        Rounds(w) == Strict(w, Sum(SHA_Rounds(state, w, 1, 64)))
        Schedule(w0) == Strict(w0, Rounds(SHA_Schedule(w0, 17, 64)))
    IN  Schedule(SHA_BlockWords(blk))

\* Sha256::new(); update(msg); finalize(), for a message below 56 bytes
Sha256(msg) ==
    LET Bytes(d) ==
            Strict(d, Seq0([i \in 1..32 |->
                LET x == d[(i + 3) \div 4]
                    half == IF (i - 1) % 4 < 2 THEN x[1] ELSE x[2]
                IN  IF (i - 1) % 2 = 0 THEN half \div 256 ELSE half % 256]))
        Block(blk) == Strict(blk, Bytes(SHA_Compress(SHA_H0, blk)))
    IN  Strict(msg, Block(SHA_Pad(msg)))

(***************************************************************************)
(* Base58 (base58::FromBase58): the digits as a big-endian number, written *)
(* in bytes, with one zero byte for every leading '1'.                     *)
(***************************************************************************)
BASE58_ALPHABET == "123456789ABCDEFGHJKLMNPQRSTUVWXYZabcdefghijkmnopqrstuvwxyz"

is_base58(c) == \E i \in 1..58 : CharAt(BASE58_ALPHABET, i) = c
base58_digit(c) == (CHOOSE i \in 1..58 : CharAt(BASE58_ALPHABET, i) = c) - 1

\* bytes * 58 + carry over the bytes lo..hi, the last byte first: <<bytes, carry>>
RECURSIVE Base58MulAdd(_, _, _, _)
Base58MulAdd(bytes, carry, lo, hi) ==
    IF lo = hi
    THEN LET Put(t) == <<[bytes EXCEPT ![lo] = t % 256], t \div 256>>
         IN  Put(bytes[lo] * 58 + carry)
    ELSE LET mid == (lo + hi) \div 2
             Then(h) == Strict(h, Base58MulAdd(h[1], h[2], lo, mid))
         IN  Then(Base58MulAdd(bytes, carry, mid + 1, hi))

\* the digits lo..hi of s taken into the number, in order
RECURSIVE Base58Digits(_, _, _, _)
Base58Digits(s, bytes, lo, hi) ==
    IF lo > hi THEN bytes
    ELSE IF lo = hi
         THEN Base58MulAdd(bytes, base58_digit(CharAt(s, lo)), 1, Len(bytes))[1]
         ELSE LET mid == (lo + hi) \div 2
                  Then(h) == Strict(h, Base58Digits(s, h, mid + 1, hi))
              IN  Then(Base58Digits(s, bytes, lo, mid))

\* the number of leading elements of f equal to x
LeadingCount(f, n, x) ==
    IF \A i \in 1..n : f[i] = x THEN n
    ELSE (CHOOSE i \in 1..n : f[i] # x /\ \A j \in 1..(i - 1) : f[j] = x) - 1

\* str::from_base58, for a string of at most 64 digits
from_base58(s) ==
    IF \E i \in 1..Len(s) : ~is_base58(CharAt(s, i))
    THEN Err("InvalidBase58Character")
    ELSE LET Decoded(zcount) ==
                 LET Bytes(bin) ==
                         LET Cut(leading_zeros) ==
                                 Ok(SubSeq(bin, leading_zeros - zcount + 1, 48))
                         IN  Cut(LeadingCount(bin, 48, 0))
                 IN  Bytes(Base58Digits(s, Seq0([i \in 1..48 |-> 0]), zcount + 1, Len(s)))
         IN  Decoded(LeadingCount([i \in 1..Len(s) |-> CharAt(s, i)], Len(s), "1"))

(***************************************************************************)
(* Tron address validation                                                 *)
(***************************************************************************)
tron_checksum(payload) ==
    LET First4(hash2) == Strict(hash2, SubSeq(hash2, 1, 4))
        Second(hash1) == Strict(hash1, First4(Sha256(hash1)))
    IN  Second(Sha256(payload))

tron_validate_address(a) ==
    IF Len(a) # 34 \/ ~starts_with(a, "T")
    THEN Err("Invalid Tron address: must be 34 chars starting with 'T'")
    ELSE LET Checked(decoded) ==
                 IF Len(decoded) # 25 THEN Err("Invalid decoded length")
                 ELSE IF decoded[1] # 65 THEN Err("Invalid Tron version byte")
                 ELSE LET Compared(payload, provided_checksum) ==
                              LET Against(expected_checksum) ==
                                      IF provided_checksum # expected_checksum
                                      THEN Err("Invalid address checksum")
                                      ELSE Ok("unit")
                              IN  Strict(payload, Against(tron_checksum(payload)))
                      IN  Compared(SubSeq(decoded, 1, 21), SubSeq(decoded, 22, 25))
             Decode(d) == IF ~d.ok THEN Err("Invalid Base58 encoding") ELSE Checked(d.val)
         IN  Decode(from_base58(a))

(***************************************************************************)
(* hex::decode and hex::encode                                             *)
(***************************************************************************)
hex_decode(s) ==
    IF Len(s) % 2 # 0 THEN Err("Odd number of digits")
    ELSE IF ~all_hexdigit(s) THEN Err("Invalid character")
         ELSE Ok(Seq0([i \in 1..(Len(s) \div 2) |->
                    16 * hex_value(CharAt(s, 2 * i - 1)) + hex_value(CharAt(s, 2 * i))]))

\* the bytes lo..hi as lower-case hex digits
RECURSIVE hex_encode_range(_, _, _)
hex_encode_range(bytes, lo, hi) ==
    IF lo > hi THEN ""
    ELSE IF lo = hi
         THEN CharAt(LowerHexDigits, (bytes[lo] \div 16) + 1)
              \o CharAt(LowerHexDigits, (bytes[lo] % 16) + 1)
         ELSE LET mid == (lo + hi) \div 2
              IN  hex_encode_range(bytes, lo, mid) \o hex_encode_range(bytes, mid + 1, hi)

hex_encode(bytes) == hex_encode_range(bytes, 1, Len(bytes))

\* format!("{:0>64}", s)
pad_left_64(s) == IF Len(s) >= 64 THEN s ELSE Repeat("0", 64 - Len(s)) \o s

(***************************************************************************)
(* The entry points: get_balance of the five chain modules, and            *)
(* arbitrum_wallet::get_erc20_balance.                                     *)
(***************************************************************************)
EntryPoints == {"bitcoin", "ethereum", "polygon", "arbitrum", "tron", "erc20"}
EvmEntryPoints == {"ethereum", "polygon", "arbitrum", "erc20"}
RestEntryPoints == {"bitcoin", "tron"}

\* the chain name in the messages of an EVM module
ChainName(f) ==
    CASE f = "ethereum" -> "Ethereum"
      [] f = "polygon" -> "Polygon"
      [] OTHER -> "Arbitrum"

ETHEREUM_RPC_URL == "https://cloudflare-eth.com"
POLYGON_RPC_URL == "https://polygon-rpc.com"
ARBITRUM_RPC_URL == "https://arb1.arbitrum.io/rpc"
BLOCKCHAIN_INFO_API == "https://blockstream.info/api"
TRON_API_URL == "https://api.trongrid.io"
BALANCE_OF_SELECTOR == "70a08231"

RpcUrl(f) ==
    CASE f = "ethereum" -> ETHEREUM_RPC_URL
      [] f = "polygon" -> POLYGON_RPC_URL
      [] OTHER -> ARBITRUM_RPC_URL

WalletBalance_new(addr, balance, network, denomination) ==
    [address |-> addr, balance |-> balance, network |-> network,
     denomination |-> denomination]

Pending == [pending |-> TRUE]
NoResponse == [none |-> TRUE]
NoAmount == [none |-> TRUE]

\* The head of every entry point: the arguments normalized (EVM), trimmed
\* (Tron) and validated.  Ok carries the local addresses the rest of the
\* function uses, Err the error the function returns.
validate_first(f, a) ==
    CASE f = "bitcoin" ->
            LET Checked(v) == IF v.ok THEN Ok(<<a[1]>>) ELSE v
            IN  Checked(bitcoin_validate_address(a[1]))
      [] f = "tron" ->
            LET Trimmed(t) ==
                    LET Checked(v) == IF v.ok THEN Ok(<<t>>) ELSE v
                    IN  Checked(tron_validate_address(t))
            IN  Trimmed(trim(a[1]))
      [] f = "erc20" ->
            LET Normalized(token_address, wallet_address) ==
                    IF ~token_address.ok THEN token_address
                    ELSE IF ~wallet_address.ok THEN wallet_address
                    ELSE LET Checked(vt, vw) ==
                                 IF ~vt.ok THEN vt
                                 ELSE IF ~vw.ok THEN vw
                                 ELSE Ok(<<token_address.val, wallet_address.val>>)
                         IN  Checked(evm_validate_address("Arbitrum", token_address.val),
                                     evm_validate_address("Arbitrum", wallet_address.val))
            IN  Normalized(normalize_address("Arbitrum", a[1]),
                           normalize_address("Arbitrum", a[2]))
      [] OTHER ->
            LET Normalized(n) ==
                    IF ~n.ok THEN n
                    ELSE LET Checked(v) == IF v.ok THEN Ok(<<n.val>>) ELSE v
                         IN  Checked(evm_validate_address(ChainName(f), n.val))
            IN  Normalized(normalize_address(ChainName(f), a[1]))

erc20_call_data_NoPad(wallet_address) ==
    LET Encoded(data, wallet) ==
            IF ~wallet.ok THEN Err("Invalid wallet address for ABI encoding")
            ELSE Ok("0x" \o hex_encode(data \o wallet.val))
        Unpadded(wallet_clean) ==
            Encoded(hex_decode(BALANCE_OF_SELECTOR).val, hex_decode(wallet_clean))
    IN  Unpadded(trim_start_matches(wallet_address, "0x"))

\* the ABI-encoded balanceOf(wallet) call of get_erc20_balance
erc20_call_data(wallet_address) ==
    LET Encoded(data, padded_wallet) ==
            IF ~padded_wallet.ok THEN Err("Invalid wallet address for ABI encoding")
            ELSE Ok("0x" \o hex_encode(data \o padded_wallet.val))
        Padded(wallet_clean) ==
            Encoded(hex_decode(BALANCE_OF_SELECTOR).val, hex_decode(pad_left_64(wallet_clean)))
    IN  Padded(trim_start_matches(wallet_address, "0x"))

JsonRpcRequest(method, params) ==
    [jsonrpc |-> "2.0", method |-> method, params |-> params, id |-> 1]

\* the HTTP request an entry point builds from its validated addresses
build_request(f, addr) ==
    CASE f = "bitcoin" ->
            Ok([verb |-> "GET", url |-> BLOCKCHAIN_INFO_API \o "/address/" \o addr[1],
                headers |-> {<<"User-Agent", "wallet-balance-cli/0.1.0">>},
                json |-> None])
      [] f = "tron" ->
            Ok([verb |-> "GET", url |-> TRON_API_URL \o "/v1/accounts/" \o addr[1],
                headers |-> {}, json |-> None])
      [] f = "erc20" ->
            LET Request(call_data) ==
                    IF ~call_data.ok THEN call_data
                    ELSE Ok([verb |-> "POST", url |-> ARBITRUM_RPC_URL,
                             headers |-> {<<"Content-Type", "application/json">>},
                             json |-> Some(JsonRpcRequest("eth_call",
                                        <<JObj([to |-> JStr(addr[1]),
                                                data |-> JStr(call_data.val)]),
                                          JStr("latest")>>))])
            IN  Request(erc20_call_data(addr[2]))
      [] OTHER ->
            Ok([verb |-> "POST", url |-> RpcUrl(f),
                headers |-> {<<"Content-Type", "application/json">>},
                json |-> Some(JsonRpcRequest("eth_getBalance",
                                             <<JStr(addr[1]), JStr("latest")>>))])

(***************************************************************************)
(* An entry point runs in three stretches, cut at its suspension points    *)
(* (the send and the read of the body).  Each stretch is an operator that  *)
(* gives what the stretch leaves behind: the phases of the pipeline it     *)
(* entered, the value returned if it returned, and where it waits if not.  *)
(***************************************************************************)
start_lookup_SendFirst(f, a) ==
    LET Sent(v) ==
            [address |-> IF v.ok THEN v.val ELSE <<>>,
             sent |-> <<[verb |-> "GET", url |-> a[1], headers |-> {}, json |-> None]>>,
             phases |-> <<"Request", "Validate">>,
             result |-> IF v.ok THEN Pending ELSE v,
             pc |-> IF v.ok THEN "send" ELSE "done"]
    IN  Sent(validate_first(f, a))

\* from the call to `.send()`
start_lookup(f, a) ==
    LET Validated(v) ==
            IF ~v.ok
            THEN [address |-> <<>>, sent |-> <<>>, phases |-> <<"Validate">>,
                  result |-> v, pc |-> "done"]
            ELSE LET Built(r) ==
                         IF ~r.ok
                         THEN [address |-> v.val, sent |-> <<>>,
                               phases |-> <<"Validate", "Request">>, result |-> r,
                               pc |-> "done"]
                         ELSE [address |-> v.val, sent |-> <<r.val>>,
                               phases |-> <<"Validate", "Request">>, result |-> Pending,
                               pc |-> "send"]
                 IN  Built(build_request(f, v.val))
    IN  Validated(validate_first(f, a))

on_send_error_Retry(f) == [result |-> Pending, pc |-> "idle"]

\* `.send().await` fails: `?` returns the error (Tron's without a context)
on_send_error(f) ==
    [result |-> Err(CASE f = "bitcoin" -> "Failed to send request to Blockstream API"
                      [] f = "tron" -> "error sending request"
                      [] f = "erc20" -> "Failed to send eth_call request"
                      [] OTHER -> "Failed to send request to " \o ChainName(f) \o " RPC"),
     pc |-> "done"]

\* `.send().await` gives a response: the status check
on_response(f, status) ==
    IF is_success(status) THEN [result |-> Pending, pc |-> "json"]
    ELSE IF f \in RestEntryPoints THEN [result |-> Pending, pc |-> "text"]
    ELSE [result |-> Err((IF f = "erc20" THEN "eth_call failed with status: "
                          ELSE "RPC request failed with status: ")
                         \o status_to_string(status)),
          pc |-> "done"]

\* Bitcoin and Tron, status not 2xx: `.text().await.unwrap_or_default()` is back
on_text(f, status, body) ==
    Err((IF f = "bitcoin" THEN "API failed: " ELSE "TronGrid API failed: ")
        \o status_to_string(status) \o " - " \o text_or_default(body))

Failed(phs, e) == [phases |-> phs, amount |-> NoAmount, result |-> Err(e)]

evm_on_json_ResultFirst(f, addr, body) ==
    LET Parsed(d) ==
            IF ~d.ok THEN Failed(<<>>, "Failed to parse JSON response")
            ELSE IF ~d.val.result.some
            THEN Failed(<<"ParseDomain">>, "No result in RPC response")
            ELSE LET Converted(balance_wei) ==
                         IF ~balance_wei.ok THEN Failed(<<"ParseDomain">>, balance_wei.err)
                         ELSE [phases |-> <<"ParseDomain", "Convert", "Success">>,
                               amount |-> Some(balance_wei.val),
                               result |-> Ok(wei_to_eth(balance_wei.val))]
                 IN  Converted(parse_hex_to_u128(d.val.result.val))
    IN  Parsed(de_JsonRpcResponse(body))

\* the EVM entry points, status 2xx: `.json().await` is back
evm_on_json(f, addr, body) ==
    LET Parsed(d) ==
            IF ~d.ok
            THEN Failed(<<>>, CASE f = "erc20" -> "Failed to parse JSON response"
                                [] OTHER -> "Failed to parse JSON response from "
                                            \o ChainName(f) \o " RPC")
            ELSE LET rpc_response == d.val
                 IN  IF rpc_response.error.some
                     THEN Failed(<<"ParseDomain">>,
                                 (IF f = "erc20" THEN "eth_call RPC error " ELSE "RPC error ")
                                 \o i32_display(rpc_response.error.val.code) \o ": "
                                 \o rpc_response.error.val.message)
                     ELSE IF ~rpc_response.result.some
                     THEN Failed(<<"ParseDomain">>,
                                 IF f = "erc20" THEN "No result in eth_call response"
                                 ELSE "No result in RPC response")
                     ELSE LET Converted(balance_wei) ==
                                  IF ~balance_wei.ok
                                  THEN Failed(<<"ParseDomain">>, balance_wei.err)
                                  ELSE LET Returned(balance_eth) ==
                                               [phases |-> <<"ParseDomain", "Convert", "Success">>,
                                                amount |-> Some(balance_wei.val),
                                                result |->
                                                  Ok(IF f = "erc20" THEN balance_eth
                                                     ELSE WalletBalance_new(addr[1], balance_eth,
                                                            CASE f = "ethereum" -> "ethereum"
                                                              [] f = "polygon" -> "polygon"
                                                              [] OTHER -> "arbitrum",
                                                            IF f = "polygon" THEN "MATIC"
                                                            ELSE "ETH"))]
                                       IN  Returned(wei_to_eth(balance_wei.val))
                          IN  Converted(parse_hex_to_u128(rpc_response.result.val))
    IN  Parsed(de_JsonRpcResponse(body))

saturating_sub_Wrapping(a, b) ==
    IF BigLt(a, b) THEN BigSub(BigAdd(BigAdd(U64_MAX, <<1>>), a), b) ELSE BigSub(a, b)

\* u64::saturating_sub
saturating_sub(a, b) == IF BigLt(a, b) THEN BigZero ELSE BigSub(a, b)

\* bitcoin_wallet::get_balance, status 2xx: `.json().await` is back
bitcoin_on_json(addr, body) ==
    LET Parsed(d) ==
            IF ~d.ok THEN Failed(<<>>, "Failed to parse JSON from Blockstream")
            ELSE LET Converted(balance_sats) ==
                         LET Returned(balance_btc) ==
                                 [phases |-> <<"ParseDomain", "Convert", "Success">>,
                                  amount |-> Some(balance_sats),
                                  result |-> Ok(WalletBalance_new(addr[1],
                                                   format_f64_fixed(balance_btc, 8),
                                                   "bitcoin", "BTC"))]
                         IN  Returned(f64_div(u64_as_f64(balance_sats), SATS_PER_BTC))
                 IN  Converted(saturating_sub(d.val.chain_stats.funded_txo_sum,
                                              d.val.chain_stats.spent_txo_sum))
    IN  Parsed(de_BlockstreamResponse(body))

tron_on_json_EmptyIsError(addr, body) ==
    LET Parsed(d) ==
            IF ~d.ok THEN Failed(<<>>, "Failed to parse JSON")
            ELSE LET data == d.val
                 IN  IF ~data.success \/ Len(data.data) = 0
                     THEN Failed(<<"ParseDomain">>, "Account not found")
                     ELSE LET Converted(balance_sun) ==
                                  LET Returned(balance_trx) ==
                                          [phases |-> <<"ParseDomain", "Convert", "Success">>,
                                           amount |-> Some(balance_sun),
                                           result |-> Ok(WalletBalance_new(addr[1],
                                                            format_f64_fixed(balance_trx, 6),
                                                            "tron", "TRX"))]
                                  IN  Returned(f64_div(u64_as_f64(balance_sun), SUN_PER_TRX))
                          IN  Converted(unwrap_or(data.data[1].balance, BigZero))
    IN  Parsed(de_AccountResponse(body))

\* tron_wallet::get_balance, status 2xx: `.json().await` is back
tron_on_json(addr, body) ==
    LET Parsed(d) ==
            IF ~d.ok THEN Failed(<<>>, "Failed to parse JSON")
            ELSE LET data == d.val
                 IN  IF ~data.success \/ Len(data.data) = 0
                     THEN [phases |-> <<"ParseDomain", "Convert", "Success">>,
                           amount |-> Some(BigZero),
                           result |-> Ok(WalletBalance_new(addr[1],
                                            format_f64_fixed(u64_as_f64(BigZero), 6),
                                            "tron", "TRX"))]
                     ELSE LET Converted(balance_sun) ==
                                  LET Returned(balance_trx) ==
                                          [phases |-> <<"ParseDomain", "Convert", "Success">>,
                                           amount |-> Some(balance_sun),
                                           result |-> Ok(WalletBalance_new(addr[1],
                                                            format_f64_fixed(balance_trx, 6),
                                                            "tron", "TRX"))]
                                  IN  Returned(f64_div(u64_as_f64(balance_sun), SUN_PER_TRX))
                          IN  Converted(unwrap_or(data.data[1].balance, BigZero))
    IN  Parsed(de_AccountResponse(body))

on_json(f, addr, body) ==
    CASE f = "bitcoin" -> bitcoin_on_json(addr, body)
      [] f = "tron" -> tron_on_json(addr, body)
      [] OTHER -> evm_on_json(f, addr, body)

(***************************************************************************)
(* What the lookups are given: arguments, and the responses a server can   *)
(* give (a status with a body).                                            *)
(***************************************************************************)
Statuses == {200, 204, 404, 429, 500}

EvmBodies ==
    { Body("{\"jsonrpc\":\"2.0\",\"id\":1,\"result\":\"0xde0b6b3a7640000\"}",
           JObj([jsonrpc |-> JStr("2.0"), id |-> JInt(FALSE, <<1>>), result |-> JStr("0xde0b6b3a7640000")])),
      Body("{\"jsonrpc\":\"2.0\",\"id\":1,\"result\":\"0x6f05b59d3b20000\"}",
           JObj([jsonrpc |-> JStr("2.0"), id |-> JInt(FALSE, <<1>>), result |-> JStr("0x6f05b59d3b20000")])),
      Body("{\"jsonrpc\":\"2.0\",\"id\":1,\"result\":\"0x0\"}",
           JObj([jsonrpc |-> JStr("2.0"), id |-> JInt(FALSE, <<1>>), result |-> JStr("0x0")])),
      Body("{\"jsonrpc\":\"2.0\",\"id\":1,\"result\":\"0x\"}",
           JObj([jsonrpc |-> JStr("2.0"), id |-> JInt(FALSE, <<1>>), result |-> JStr("0x")])),
      Body("{\"jsonrpc\":\"2.0\",\"id\":1,\"result\":\"0xzz\"}",
           JObj([jsonrpc |-> JStr("2.0"), id |-> JInt(FALSE, <<1>>), result |-> JStr("0xzz")])),
      Body("{\"jsonrpc\":\"2.0\",\"id\":1,\"result\":\"de0b6b3a7640000\"}",
           JObj([jsonrpc |-> JStr("2.0"), id |-> JInt(FALSE, <<1>>), result |-> JStr("de0b6b3a7640000")])),
      Body("{\"jsonrpc\":\"2.0\",\"id\":1,\"result\":\"0xffffffffffffffffffffffffffffffff\"}",
           JObj([jsonrpc |-> JStr("2.0"), id |-> JInt(FALSE, <<1>>), result |-> JStr("0xffffffffffffffffffffffffffffffff")])),
      Body("{\"jsonrpc\":\"2.0\",\"id\":1,\"result\":\"0x100000000000000000000000000000000\"}",
           JObj([jsonrpc |-> JStr("2.0"), id |-> JInt(FALSE, <<1>>), result |-> JStr("0x100000000000000000000000000000000")])),
      Body("{\"jsonrpc\":\"2.0\",\"id\":1,\"error\":{\"code\":-32602,\"message\":\"invalid argument\"}}",
           JObj([jsonrpc |-> JStr("2.0"), id |-> JInt(FALSE, <<1>>), error |-> JObj([code |-> JInt(TRUE, <<3, 2, 6, 0, 2>>), message |-> JStr("invalid argument")])])),
      Body("{\"jsonrpc\":\"2.0\",\"id\":1,\"result\":\"0xde0b6b3a7640000\",\"error\":{\"code\":-32000,\"message\":\"execution reverted\"}}",
           JObj([jsonrpc |-> JStr("2.0"), id |-> JInt(FALSE, <<1>>), result |-> JStr("0xde0b6b3a7640000"), error |-> JObj([code |-> JInt(TRUE, <<3, 2, 0, 0, 0>>), message |-> JStr("execution reverted")])])),
      Body("{\"jsonrpc\":\"2.0\",\"id\":1,\"result\":null,\"error\":null}",
           JObj([jsonrpc |-> JStr("2.0"), id |-> JInt(FALSE, <<1>>), result |-> JNull, error |-> JNull])),
      Body("{\"jsonrpc\":\"2.0\",\"id\":1,\"result\":\"0x1\",\"error\":null}",
           JObj([jsonrpc |-> JStr("2.0"), id |-> JInt(FALSE, <<1>>), result |-> JStr("0x1"), error |-> JNull])),
      Body("{}",
           EmptyObject),
      Body("{\"jsonrpc\":\"2.0\",\"id\":1,\"error\":{\"code\":-32000}}",
           JObj([jsonrpc |-> JStr("2.0"), id |-> JInt(FALSE, <<1>>), error |-> JObj([code |-> JInt(TRUE, <<3, 2, 0, 0, 0>>)])])),
      Body("{\"jsonrpc\":\"2.0\",\"id\":1,\"result\":1000}",
           JObj([jsonrpc |-> JStr("2.0"), id |-> JInt(FALSE, <<1>>), result |-> JInt(FALSE, <<1, 0, 0, 0>>)])),
      Body("Bad Gateway", NotJson),
      UnreadableBody }

\* satoshi totals, up to u64::MAX
SatSamples ==
    { BigZero, <<1>>, <<1,0,0,0,0,0,0,0,0>>, <<1,5,0,0,0,0,0,0,0>>,
      <<9,0,0,7,1,9,9,2,5,4,7,4,0,9,9,3>>, U64_MAX }

BlockstreamBody(funded, spent) ==
    Body("{\"chain_stats\":{\"funded_txo_sum\":" \o to_string(funded)
         \o ",\"spent_txo_sum\":" \o to_string(spent) \o "}}",
         JObj([chain_stats |-> JObj([funded_txo_sum |-> JInt(FALSE, funded),
                                     spent_txo_sum |-> JInt(FALSE, spent)])]))

BitcoinBadBodies ==
    { Body("{}",
           EmptyObject),
      Body("{\"chain_stats\":{\"funded_txo_sum\":150000000}}",
           JObj([chain_stats |-> JObj([funded_txo_sum |-> JInt(FALSE, <<1, 5, 0, 0, 0, 0, 0, 0, 0>>)])])),
      Body("{\"chain_stats\":{\"funded_txo_sum\":-1,\"spent_txo_sum\":0}}",
           JObj([chain_stats |-> JObj([funded_txo_sum |-> JInt(TRUE, <<1>>), spent_txo_sum |-> JInt(FALSE, <<0>>)])])),
      Body("{\"chain_stats\":{\"funded_txo_sum\":18446744073709551616,\"spent_txo_sum\":0}}",
           JObj([chain_stats |-> JObj([funded_txo_sum |-> JInt(FALSE, <<1, 8, 4, 4, 6, 7, 4, 4, 0, 7, 3, 7, 0, 9, 5, 5, 1, 6, 1, 6>>), spent_txo_sum |-> JInt(FALSE, <<0>>)])])),
      Body("{\"final_balance\":150000000}",
           JObj([final_balance |-> JInt(FALSE, <<1, 5, 0, 0, 0, 0, 0, 0, 0>>)])),
      Body("Bad Gateway", NotJson),
      UnreadableBody }

BitcoinBodies ==
    {BlockstreamBody(f, sp) : f \in SatSamples, sp \in SatSamples} \cup BitcoinBadBodies

TronBodies ==
    { Body("{\"success\":true,\"data\":[{\"balance\":1500000}]}",
           JObj([success |-> JBool(TRUE), data |-> JArr(<<JObj([balance |-> JInt(FALSE, <<1, 5, 0, 0, 0, 0, 0>>)])>>)])),
      Body("{\"success\":true,\"data\":[{\"balance\":1}]}",
           JObj([success |-> JBool(TRUE), data |-> JArr(<<JObj([balance |-> JInt(FALSE, <<1>>)])>>)])),
      Body("{\"success\":true,\"data\":[{\"balance\":0}]}",
           JObj([success |-> JBool(TRUE), data |-> JArr(<<JObj([balance |-> JInt(FALSE, <<0>>)])>>)])),
      Body("{\"success\":true,\"data\":[{\"balance\":9007199254740993}]}",
           JObj([success |-> JBool(TRUE), data |-> JArr(<<JObj([balance |-> JInt(FALSE, <<9, 0, 0, 7, 1, 9, 9, 2, 5, 4, 7, 4, 0, 9, 9, 3>>)])>>)])),
      Body("{\"success\":true,\"data\":[{\"balance\":18446744073709551615}]}",
           JObj([success |-> JBool(TRUE), data |-> JArr(<<JObj([balance |-> JInt(FALSE, <<1, 8, 4, 4, 6, 7, 4, 4, 0, 7, 3, 7, 0, 9, 5, 5, 1, 6, 1, 5>>)])>>)])),
      Body("{\"success\":true,\"data\":[{\"address\":\"41a614f803b6fd780986a42c78ec9c7f77e6ded13c\"}]}",
           JObj([success |-> JBool(TRUE), data |-> JArr(<<JObj([address |-> JStr("41a614f803b6fd780986a42c78ec9c7f77e6ded13c")])>>)])),
      Body("{\"success\":true,\"data\":[{\"balance\":null}]}",
           JObj([success |-> JBool(TRUE), data |-> JArr(<<JObj([balance |-> JNull])>>)])),
      Body("{\"success\":true,\"data\":[{\"balance\":2500000},{\"balance\":7}]}",
           JObj([success |-> JBool(TRUE), data |-> JArr(<<JObj([balance |-> JInt(FALSE, <<2, 5, 0, 0, 0, 0, 0>>)]), JObj([balance |-> JInt(FALSE, <<7>>)])>>)])),
      Body("{\"success\":true,\"data\":[]}",
           JObj([success |-> JBool(TRUE), data |-> JArr(<<>>)])),
      Body("{\"success\":false,\"data\":[{\"balance\":1500000}]}",
           JObj([success |-> JBool(FALSE), data |-> JArr(<<JObj([balance |-> JInt(FALSE, <<1, 5, 0, 0, 0, 0, 0>>)])>>)])),
      Body("{\"success\":false,\"data\":[]}",
           JObj([success |-> JBool(FALSE), data |-> JArr(<<>>)])),
      Body("{\"data\":[{\"balance\":1500000}]}",
           JObj([data |-> JArr(<<JObj([balance |-> JInt(FALSE, <<1, 5, 0, 0, 0, 0, 0>>)])>>)])),
      Body("{\"success\":true,\"data\":[{\"balance\":-5}]}",
           JObj([success |-> JBool(TRUE), data |-> JArr(<<JObj([balance |-> JInt(TRUE, <<5>>)])>>)])),
      Body("{\"success\":true,\"data\":[{\"balance\":18446744073709551616}]}",
           JObj([success |-> JBool(TRUE), data |-> JArr(<<JObj([balance |-> JInt(FALSE, <<1, 8, 4, 4, 6, 7, 4, 4, 0, 7, 3, 7, 0, 9, 5, 5, 1, 6, 1, 6>>)])>>)])),
      Body("{\"success\":true}",
           JObj([success |-> JBool(TRUE)])),
      Body("Bad Gateway", NotJson),
      UnreadableBody }

Bodies(f) ==
    CASE f = "bitcoin" -> BitcoinBodies
      [] f = "tron" -> TronBodies
      [] OTHER -> EvmBodies

BitcoinArgs ==
    { "", "1234567890", "invalid_bitcoin_address",
      "1A1zP1eP5QGefi2DMPTfTL5SLmv7DivfNa",
      "bc1qw508d6qejxtdg4y5r3zarvary0c5xw7kv8f3t4",
      "2A1zP1eP5QGefi2DMPTfTL5SLmv7DivfNa" }

EvmArgs ==
    { "", "0x742d35cc6634c0532925a3b844bc454e4438f44e",
      "0x742d35Cc6634C0532925a3b844Bc454e4438f44e",
      "0X742D35CC6634C0532925A3B844BC454E4438F44E",
      "742d35cc6634c0532925a3b844bc454e4438f44e",
      "0x123", "0x742d35cc6634c0532925a3b844bc454e4438f44e0",
      "0xg42d35cc6634c0532925a3b844bc454e4438f44e" }

Erc20Args ==
    { "", "0x123", "0xg42d35cc6634c0532925a3b844bc454e4438f44e",
      "0x742d35Cc6634C0532925a3b844Bc454e4438f44e",
      "af88d065e77c8cc2239327c5edb3a432268e5831" }

TronArgs ==
    { "", "TR7NHqjeKQxGTCi8q8ZY4pL8otSzgjLj6t",
      "  TNPeeaaFB7K9cmo4uQpcU32zGK8G1NYqeL ",
      "TR7NHqjeKQxGTCi8q8ZY4pL8otSzgjLj6s",
      "TpSyGx2w2bR9GdrDrYtrYwbvSPhwSmg7ER",
      "TR7NHqjeKQxGTCi8q8ZY4pL8otSzgjLj6",
      "AR7NHqjeKQxGTCi8q8ZY4pL8otSzgjLj6t",
      "TR7NHqjeKQxGTCi8q8ZY4pL8otSzgjLj60" }

ArgSamples(f) ==
    CASE f = "bitcoin" -> {<<a>> : a \in BitcoinArgs}
      [] f = "tron" -> {<<a>> : a \in TronArgs}
      [] f = "erc20" -> {<<t, w>> : t \in Erc20Args, w \in Erc20Args}
      [] OTHER -> {<<a>> : a \in EvmArgs}

(***************************************************************************)
(* One lookup                                                              *)
(***************************************************************************)
Init ==
    /\ pc = "idle"
    /\ fn = "none"
    /\ args = <<>>
    /\ address = <<>>
    /\ requests = <<>>
    /\ response = NoResponse
    /\ phases = <<>>
    /\ locals = NoAmount
    /\ result = Pending
    /\ vfn = "none" /\ vin = "" /\ vout = Pending
    /\ wei = BigZero /\ eth = None
    /\ token = "" /\ parsed = Pending /\ tasks = <<>>

\* the caller calls entry point f with the arguments a
Call(f, a) ==
    /\ pc = "idle"
    /\ LET Leave(s) ==
               /\ fn' = f
               /\ args' = a
               /\ address' = s.address
               /\ requests' = requests \o s.sent
               /\ phases' = phases \o s.phases
               /\ result' = s.result
               /\ pc' = s.pc
       IN  Leave(start_lookup(f, a))
    /\ UNCHANGED <<response, locals, validatorVars, converterVars, parserVars, joinVars>>

\* the request cannot be sent, or no response comes
SendFails ==
    /\ pc = "send"
    /\ LET s == on_send_error(fn)
       IN  /\ result' = s.result
           /\ pc' = s.pc
    /\ UNCHANGED <<fn, args, address, requests, response, phases, locals,
                   validatorVars, converterVars, parserVars, joinVars>>

\* the server answers
Respond(status, body) ==
    /\ pc = "send"
    /\ response' = [status |-> status, body |-> body]
    /\ phases' = Append(phases, "ParseTransport")
    /\ LET s == on_response(fn, status)
       IN  /\ result' = s.result
           /\ pc' = s.pc
    /\ UNCHANGED <<fn, args, address, requests, locals, validatorVars, converterVars, parserVars, joinVars>>

\* the body of an error response has been read as text
ReadText ==
    /\ pc = "text"
    /\ result' = on_text(fn, response.status, response.body)
    /\ pc' = "done"
    /\ UNCHANGED <<fn, args, address, requests, response, phases, locals,
                   validatorVars, converterVars, parserVars, joinVars>>

\* the body of a 2xx response has been read and deserialized
ReadJson ==
    /\ pc = "json"
    /\ LET Leave(s) ==
               /\ result' = s.result
               /\ phases' = phases \o s.phases
               /\ locals' = s.amount
       IN  Leave(on_json(fn, address, response.body))
    /\ pc' = "done"
    /\ UNCHANGED <<fn, args, address, requests, response, validatorVars, converterVars, parserVars, joinVars>>

Next ==
    \/ \E f \in EntryPoints : \E a \in ArgSamples(f) : Call(f, a)
    \/ SendFails
    \/ \E status \in Statuses : \E body \in Bodies(fn) : Respond(status, body)
    \/ ReadText
    \/ ReadJson

Spec == Init /\ [][Next]_vars

(***************************************************************************)
(* The address validators on their own.  A validator is the head of an     *)
(* entry point (normalize_address followed by validate_address for the EVM *)
(* modules, validate_address of the trimmed string for Tron) or, for the EVM modules, validate_address alone, handed a      *)
(* string as it is.                                                        *)
(***************************************************************************)
MaxLen == 64

EvmValidateOnly ==
    {"Ethereum.validate_address", "Polygon.validate_address", "Arbitrum.validate_address"}

Validators == {"bitcoin", "tron"} \cup EvmChains \cup EvmValidateOnly

\* the chain of an EVM validator
ChainOf(v) ==
    CASE starts_with(v, "Ethereum") -> "Ethereum"
      [] starts_with(v, "Polygon") -> "Polygon"
      [] OTHER -> "Arbitrum"

\* the entry point a validator is the head of
EntryPointOf(v) ==
    CASE v = "Ethereum" -> "ethereum"
      [] v = "Polygon" -> "polygon"
      [] v = "Arbitrum" -> "arbitrum"
      [] OTHER -> v

run_validator(v, a) ==
    CASE v = "bitcoin" -> bitcoin_validate_address(a)
      [] v = "tron" -> tron_validate_address(trim(a))
      [] v \in EvmValidateOnly -> evm_validate_address(ChainOf(v), a)
      [] OTHER ->
            LET Normalized(n) == IF ~n.ok THEN n ELSE evm_validate_address(v, n.val)
            IN  Normalized(normalize_address(v, a))

\* what the validator returns for a, and the requests the entry point it heads
\* has sent when it is called with a and reaches its first suspension point
validation(v, a) ==
    [ret |-> run_validator(v, a),
     sent |-> IF v \in EvmValidateOnly THEN <<>>
              ELSE start_lookup(EntryPointOf(v), <<a>>).sent]

BitcoinPrefixes == {"", "1", "3", "bc1", "2", "b", "bc", "Bc1", "x1", "31"}

BitcoinInputs ==
    {p \o Repeat("a", n - Len(p)) : p \in BitcoinPrefixes, n \in 3..MaxLen}
    \cup BitcoinArgs

EvmPrefixes == {"0x", "0X", "", "0y", "x0"}

EvmInputs ==
    {p \o Repeat(c, n) : p \in EvmPrefixes, c \in {"a", "F", "7", "g"}, n \in 37..43}
    \cup {p \o "742d35Cc6634C0532925a3b844Bc454e4438f44" \o c :
            p \in EvmPrefixes, c \in {"e", "E", "", "z", " ", "e0"}}
    \cup EvmArgs

TronInputs ==
    TronArgs \cup
    { "TNPeeaaFB7K9cmo4uQpcU32zGK8G1NYqeL", "T1mmJjSMcEVPdma3oiEDah4MBPC3yQsKfi",
      "TR7NHqjeKQxGTCi8q8ZY4pL8otSzgjLj6tt", "tR7NHqjeKQxGTCi8q8ZY4pL8otSzgjLj6t",
      "TR7NHqjeKQxGTCi8q8ZY4pL8otSzgjLjOt", "T" }

ValidatorInputs(v) ==
    CASE v = "bitcoin" -> BitcoinInputs
      [] v = "tron" -> TronInputs
      [] OTHER -> EvmInputs

InitAddr ==
    /\ vfn \in Validators
    /\ vin \in ValidatorInputs(vfn)
    /\ vout = Pending
    /\ pc = "idle" /\ fn = "none" /\ args = <<>> /\ address = <<>> /\ requests = <<>>
    /\ response = NoResponse /\ phases = <<>> /\ locals = NoAmount /\ result = Pending
    /\ wei = BigZero /\ eth = None
    /\ token = "" /\ parsed = Pending /\ tasks = <<>>

Validate ==
    /\ vout = Pending
    /\ vout' = validation(vfn, vin)
    /\ UNCHANGED <<vfn, vin, lookupVars, converterVars, parserVars, joinVars>>

NextAddr == Validate

SpecAddr == InitAddr /\ [][NextAddr]_vars

(***************************************************************************)
(* wei_to_eth on its own                                                   *)
(***************************************************************************)
MaxWhole == 4

\* whole * 10^18 + frac for a fraction of at most 18 digits
WeiOf(whole, frac) == BigAdd(BigNorm(whole \o Seq0([i \in 1..18 |-> 0])), BigNorm(frac))

\* fractions: a few digits followed by zeros, up to 18 digits
FracSamples ==
    {<<0>>, <<9,9,9,9,9,9,9,9,9,9,9,9,9,9,9,9,9,9>>, <<1,2,3,4,5,6,7,8,9,0,1,2,3,4,5,6,7,8>>}
    \cup {d \o Seq0([i \in 1..z |-> 0]) : d \in {<<1>>, <<5>>, <<1,0,5>>}, z \in 0..15}
    \cup {<<1>> \o Seq0([i \in 1..17 |-> 0]), <<5>> \o Seq0([i \in 1..17 |-> 0])}

WholeSamples ==
    {BigOfSmall(k) : k \in 0..MaxWhole}
    \cup {<<1,0>>, <<1,2,0,0>>, <<3,4,0,2,8,2,3,6,6,9,2,0,9,3,8,4,6,3,4,6,2>>}

WeiSamples ==
    {WeiOf(whole, frac) : whole \in WholeSamples, frac \in FracSamples} \cup {U128_MAX}

InitConv ==
    /\ wei \in WeiSamples
    /\ eth = None
    /\ pc = "idle" /\ fn = "none" /\ args = <<>> /\ address = <<>> /\ requests = <<>>
    /\ response = NoResponse /\ phases = <<>> /\ locals = NoAmount /\ result = Pending
    /\ vfn = "none" /\ vin = "" /\ vout = Pending
    /\ token = "" /\ parsed = Pending /\ tasks = <<>>

Convert ==
    /\ eth = None
    /\ eth' = Some(wei_to_eth(wei))
    /\ UNCHANGED <<wei, lookupVars, validatorVars, parserVars, joinVars>>

NextConv == Convert

SpecConv == InitConv /\ [][NextConv]_vars

(***************************************************************************)
(* The lookup with a transport that answers: every lookup that is started  *)
(* is carried on, and the transport in the end answers or fails.  Every    *)
(* step of Next changes pc and a step is possible exactly while pc is not  *)
(* "done", so the fairness of Next is stated on the change of pc.          *)
(***************************************************************************)
Stages == {"idle", "send", "text", "json", "done"}

Advance == pc # "done" /\ pc' \in Stages \ {pc}

SpecFair == Init /\ [][Next]_vars /\ WF_pc(Advance)

(***************************************************************************)
(* Properties                                                              *)
(***************************************************************************)
\* t occurs in s
Contains(s, t) == \E i \in 1..(Len(s) - Len(t) + 1) : SubSeq(s, i, i + Len(t) - 1) = t

IsPrefix(p, q) == Len(p) <= Len(q) /\ SubSeq(q, 1, Len(p)) = p

Answered == response # NoResponse

\* the validators accept the arguments of entry point f
HeadAccepts(f, a) ==
    CASE f = "bitcoin" -> bitcoin_validate_address(a[1]).ok
      [] f = "tron" -> tron_validate_address(trim(a[1])).ok
      [] f = "erc20" -> run_validator("Arbitrum", a[1]).ok /\ run_validator("Arbitrum", a[2]).ok
      [] OTHER -> run_validator(ChainName(f), a[1]).ok

\* C1: in every entry point the address is normalized and validated before
\* anything else: a request has been sent only if the validators accept the
\* arguments, and a lookup whose arguments they reject ends in an error with
\* no request sent and no response received.
C1_ValidateBeforeRequest ==
    /\ requests # <<>> => HeadAccepts(fn, args)
    /\ (pc = "done" /\ ~HeadAccepts(fn, args)) =>
           /\ result # Pending /\ ~result.ok
           /\ requests = <<>>
           /\ response = NoResponse

\* get_erc20_balance with a good token address and a wallet address that is
\* too short has returned the validator's error without a request
C1_Witness ==
    /\ pc = "done"
    /\ fn = "erc20"
    /\ args = <<"0x742d35Cc6634C0532925a3b844Bc454e4438f44e", "0x123">>
    /\ result = Err("Invalid Arbitrum address length (expected 42 characters)")
    /\ requests = <<>>

Pipeline == <<"Validate", "Request", "ParseTransport", "ParseDomain", "Convert", "Success">>

C2_Linear ==
    /\ Len(requests) <= 1
    /\ IsPrefix(phases, Pipeline)
    /\ (pc = "done") <=> (result # Pending)
    /\ result # Pending => (result.ok <=> phases = Pipeline)
    /\ pc \in {"send", "text", "json"} => Len(requests) = 1

C2_Step ==
    /\ pc # "done"
    /\ IsPrefix(phases, phases')
    /\ IsPrefix(requests, requests')

C3_NonSuccessStatus ==
    (Answered /\ response.status \notin 200..299) =>
        /\ pc \in {"text", "done"}
        /\ locals = NoAmount
        /\ phases = <<"Validate", "Request", "ParseTransport">>
        /\ pc = "done" =>
               /\ ~result.ok
               /\ Contains(result.err, nat_to_string(response.status))

\* status 500 with a body that holds a balance: the error of the status
C3_Witness ==
    /\ pc = "done"
    /\ fn = "ethereum"
    /\ Answered
    /\ response.status = 500
    /\ response.body.readable
    /\ response.body.raw = "{\"jsonrpc\":\"2.0\",\"id\":1,\"result\":\"0xde0b6b3a7640000\"}"
    /\ result = Err("RPC request failed with status: 500 Internal Server Error")

\* the member k of the JSON object of the body is there and not null
BodyHas(body, k) == body.doc.t = "obj" /\ k \in DOMAIN body.doc.v /\ body.doc.v[k] # JNull

\* the text "<code>: <message>" of the member `error` of the body
ErrorText(body) ==
    (IF body.doc.v["error"].v["code"].neg THEN "-" ELSE "")
        \o to_string(body.doc.v["error"].v["code"].v)
        \o ": " \o body.doc.v["error"].v["message"].v

\* C4: an EVM entry point that got a 2xx response whose body deserialized
\* succeeds only if `error` is absent and `result` present; with `error`
\* present it fails with the error's code and message, also when `result` is
\* present; with both absent it fails with the no-result error.
C4_ErrorBeforeResult ==
    (/\ pc = "done"
     /\ fn \in EvmEntryPoints
     /\ Answered
     /\ response.status \in 200..299
     /\ de_JsonRpcResponse(response.body).ok) =>
        /\ result.ok => (~BodyHas(response.body, "error") /\ BodyHas(response.body, "result"))
        /\ BodyHas(response.body, "error") =>
               /\ ~result.ok
               /\ Contains(result.err, "RPC error " \o ErrorText(response.body))
        /\ (~BodyHas(response.body, "error") /\ ~BodyHas(response.body, "result")) =>
               /\ ~result.ok
               /\ Contains(result.err, "No result in ")

\* `error` and `result` both present: the RPC error
C4_Witness ==
    /\ pc = "done"
    /\ fn = "polygon"
    /\ Answered
    /\ response.status = 200
    /\ response.body.readable
    /\ BodyHas(response.body, "error")
    /\ BodyHas(response.body, "result")
    /\ result = Err("RPC error -32000: execution reverted")

(***************************************************************************)
(* Decimal text read back as a number                                      *)
(***************************************************************************)
DecimalChars == {"0", "1", "2", "3", "4", "5", "6", "7", "8", "9"}

DigitOf(c) == CHOOSE d \in 0..9 : SubSeq("0123456789", d + 1, d + 1) = c

AllDecimal(s) == \A i \in 1..Len(s) : SubSeq(s, i, i) \in DecimalChars

DigitsOf(s) == [i \in 1..Len(s) |-> DigitOf(SubSeq(s, i, i))]

Dots(s) == {i \in 1..Len(s) : SubSeq(s, i, i) = "."}

IntPart(s) == IF Dots(s) = {} THEN s ELSE SubSeq(s, 1, (CHOOSE i \in Dots(s) : TRUE) - 1)

FracPart(s) == IF Dots(s) = {} THEN "" ELSE SubSeq(s, (CHOOSE i \in Dots(s) : TRUE) + 1, Len(s))

Zeros(n) == [i \in 1..n |-> 0]

\* the digits of a number without leading zeros
Canonical(d) == Len(d) >= 1 /\ (Len(d) > 1 => d[1] # 0)

\* s is a decimal numeral with at most 18 digits behind the point
IsDecimal18(s) ==
    /\ Cardinality(Dots(s)) <= 1
    /\ IntPart(s) # "" /\ AllDecimal(IntPart(s))
    /\ AllDecimal(FracPart(s)) /\ Len(FracPart(s)) <= 18
    /\ Dots(s) # {} => FracPart(s) # ""

\* the digits of s * 10^18, leading zeros kept
Scaled(s) == DigitsOf(IntPart(s)) \o DigitsOf(FracPart(s)) \o Zeros(18 - Len(FracPart(s)))

\* equality of two digit strings as numbers
SameNumber(a, b) ==
    LET n == IF Len(a) > Len(b) THEN Len(a) ELSE Len(b)
    IN  Zeros(n - Len(a)) \o a = Zeros(n - Len(b)) \o b

\* the digits of w div 10^18 and of w mod 10^18 (18 digits), read off the
\* decimal digits of w
WholeDigits(w) == IF Len(w) <= 18 THEN <<0>> ELSE SubSeq(w, 1, Len(w) - 18)

FractionDigits(w) == IF Len(w) <= 18 THEN Zeros(18 - Len(w)) \o w ELSE SubSeq(w, Len(w) - 17, Len(w))

\* C5: the text wei_to_eth(wei) is a decimal numeral whose value is exactly
\* wei / 10^18: scaled by 10^18 it is the integer wei.
C5_ExactValue ==
    eth.some =>
        /\ IsDecimal18(eth.val)
        /\ SameNumber(Scaled(eth.val), wei)

\* 1.005 ETH: the fraction 005 needs its leading zeros
C5_Witness ==
    /\ wei = <<1,0,0,5,0,0,0,0,0,0,0,0,0,0,0,0,0,0,0>>
    /\ eth = Some("1.005")

\* C6: wei_to_eth(wei) is the 18-decimals reference text: "0" for zero; the
\* whole number alone, without a point, for a multiple of 10^18; otherwise
\* whole, point, and the fraction of 18 zero-padded digits with its trailing
\* zeros stripped (1 to 18 digits, the last one not 0).
C6_ReferenceText ==
    eth.some =>
        /\ Canonical(wei)
        /\ wei = <<0>> => eth.val = "0"
        /\ FractionDigits(wei) = Zeros(18) =>
               /\ Dots(eth.val) = {}
               /\ AllDecimal(eth.val)
               /\ DigitsOf(eth.val) = WholeDigits(wei)
        /\ FractionDigits(wei) # Zeros(18) =>
               /\ Cardinality(Dots(eth.val)) = 1
               /\ AllDecimal(IntPart(eth.val)) /\ AllDecimal(FracPart(eth.val))
               /\ DigitsOf(IntPart(eth.val)) = WholeDigits(wei)
               /\ Len(FracPart(eth.val)) \in 1..18
               /\ SubSeq(eth.val, Len(eth.val), Len(eth.val)) # "0"
               /\ DigitsOf(FracPart(eth.val)) \o Zeros(18 - Len(FracPart(eth.val)))
                      = FractionDigits(wei)

\* 1.5 ETH: seventeen trailing zeros of the fraction are stripped
C6_Witness ==
    /\ wei = <<1,5,0,0,0,0,0,0,0,0,0,0,0,0,0,0,0,0,0>>
    /\ eth = Some("1.5")

(***************************************************************************)
(* Address validators                                                      *)
(***************************************************************************)
HexChars ==
    {"0", "1", "2", "3", "4", "5", "6", "7", "8", "9",
     "a", "b", "c", "d", "e", "f", "A", "B", "C", "D", "E", "F"}

IsHexText(s) == \A i \in 1..Len(s) : SubSeq(s, i, i) \in HexChars

HasPrefix(s, p) == Len(s) >= Len(p) /\ SubSeq(s, 1, Len(p)) = p

\* exactly `0x` followed by 40 hexadecimal digits
Exact0x40(s) == Len(s) = 42 /\ HasPrefix(s, "0x") /\ IsHexText(SubSeq(s, 3, 42))

Validated == vout # Pending

\* C7: validate_address alone accepts exactly `0x` followed by 40 hexadecimal
\* digits of any case (so not the empty string, not 41 or 43 characters, not a
\* non-hex character, not a missing prefix, not the prefix `0X`); and
\* normalize_address followed by validate_address accepts an input exactly
\* when its normalized form is that: `0x` or `0X` followed by 40 hexadecimal
\* digits, or 40 hexadecimal digits without a prefix.
C7_EvmValidator ==
    (Validated /\ vfn \in EvmChains \cup EvmValidateOnly) =>
        IF vfn \in EvmValidateOnly
        THEN vout.ret.ok <=> Exact0x40(vin)
        ELSE /\ vout.ret.ok <=>
                    \/ Exact0x40(vin)
                    \/ Len(vin) = 42 /\ HasPrefix(vin, "0X") /\ IsHexText(SubSeq(vin, 3, 42))
                    \/ Len(vin) = 40 /\ IsHexText(vin)
             /\ vout.ret.ok <=> vout.sent # <<>>

\* a mixed-case address is accepted by the head of ethereum's get_balance
C7_Witness ==
    /\ Validated
    /\ vfn = "Ethereum"
    /\ vin = "0x742d35Cc6634C0532925a3b844Bc454e4438f44e"
    /\ vout.ret.ok

\* C8: the Bitcoin validator accepts an input exactly when it is non-empty,
\* 26 to 62 characters long and begins with `1`, `3` or `bc1`; an input it
\* rejects ends the lookup before any request is made.
C8_BitcoinValidator ==
    (Validated /\ vfn = "bitcoin") =>
        /\ vout.ret.ok <=>
               /\ vin # ""
               /\ Len(vin) \in 26..62
               /\ HasPrefix(vin, "1") \/ HasPrefix(vin, "3") \/ HasPrefix(vin, "bc1")
        /\ ~vout.ret.ok => vout.sent = <<>>
        /\ vin \in {"", "1234567890", "invalid_bitcoin_address"} => ~vout.ret.ok

\* 63 characters behind a good prefix: rejected, nothing sent
C8_Witness ==
    /\ Validated
    /\ vfn = "bitcoin"
    /\ Len(vin) = 63
    /\ HasPrefix(vin, "bc1")
    /\ ~vout.ret.ok
    /\ vout.sent = <<>>

Base58Chars ==
    {SubSeq("123456789ABCDEFGHJKLMNPQRSTUVWXYZabcdefghijkmnopqrstuvwxyz", i, i) : i \in 1..58}

\* the first of the failure conditions of validator v that the input a meets
FailureCondition(v, a) ==
    CASE v = "bitcoin" ->
            IF a = "" THEN "empty"
            ELSE IF Len(a) \notin 26..62 THEN "wrong length"
            ELSE IF ~(HasPrefix(a, "1") \/ HasPrefix(a, "3") \/ HasPrefix(a, "bc1"))
                 THEN "wrong prefix"
            ELSE "none"
      [] v = "tron" ->
            LET Of(t) ==
                    IF Len(t) # 34 THEN "wrong length"
                    ELSE IF ~HasPrefix(t, "T") THEN "wrong prefix"
                    ELSE IF \E i \in 1..Len(t) : SubSeq(t, i, i) \notin Base58Chars
                         THEN "non-base58 characters"
                    ELSE IF tron_validate_address(t).ok THEN "none"
                    ELSE IF from_base58(t).val[1] # 65 THEN "wrong version byte"
                    ELSE "checksum mismatch"
            IN  Of(trim(a))
      [] v \in EvmValidateOnly ->
            IF ~HasPrefix(a, "0x") THEN "wrong prefix"
            ELSE IF Len(a) # 42 THEN "wrong length"
            ELSE IF ~IsHexText(SubSeq(a, 3, 42)) THEN "non-hex characters"
            ELSE "none"
      [] OTHER ->
            LET Of(digits) ==
                    IF a = "" THEN "empty"
                    ELSE IF Len(digits) # 40 THEN "wrong length"
                    ELSE IF ~IsHexText(digits) THEN "non-hex characters"
                    ELSE "none"
            IN  Of(IF HasPrefix(a, "0x") \/ HasPrefix(a, "0X") THEN SubSeq(a, 3, Len(a)) ELSE a)

\* the error of validator v on input b differs from the error e
OtherError(v, b, e) ==
    LET Differs(r) == ~r.ok => r.err # e
    IN  Differs(run_validator(v, b))

\* C9: two inputs that a validator rejects for different failure conditions
\* get different errors; in particular the Tron validator tells a length
\* other than 34 from a first character other than `T`.
C9_DistinguishableErrors ==
    (Validated /\ ~vout.ret.ok) =>
        \A b \in ValidatorInputs(vfn) :
            FailureCondition(vfn, b) # FailureCondition(vfn, vin) =>
                OtherError(vfn, b, vout.ret.err)

\* C10: with a Blockstream body that deserializes, the lookup succeeds and the
\* satoshi balance is funded - spent when funded >= spent and 0 when
\* spent > funded: it is never above funded, so never a wrapped difference.
C10_SaturatingBalance ==
    (/\ pc = "done"
     /\ fn = "bitcoin"
     /\ Answered
     /\ response.status \in 200..299
     /\ de_BlockstreamResponse(response.body).ok) =>
        LET Balance(funded, spent) ==
                /\ result.ok
                /\ locals.some
                /\ BigLe(locals.val, funded)
                /\ BigLe(spent, funded) => BigAdd(locals.val, spent) = funded
                /\ BigLt(funded, spent) =>
                       /\ locals.val = BigZero
                       /\ result.val.balance = "0.00000000"
        IN  Balance(response.body.doc.v["chain_stats"].v["funded_txo_sum"].v,
                    response.body.doc.v["chain_stats"].v["spent_txo_sum"].v)

\* spent 1.5 BTC of 1 BTC funded: success with balance 0
C10_Witness ==
    /\ pc = "done"
    /\ fn = "bitcoin"
    /\ Answered
    /\ response.status = 200
    /\ response.body = BlockstreamBody(<<1,0,0,0,0,0,0,0,0>>, <<1,5,0,0,0,0,0,0,0>>)
    /\ result.ok
    /\ locals = Some(BigZero)

(***************************************************************************)
(* Amounts in base units as decimal text                                   *)
(***************************************************************************)
\* amount / 10^d written with exactly d fraction digits, from the decimal
\* digits of amount
ExactFixed(amount, d) ==
    to_string(IF Len(amount) <= d THEN <<0>> ELSE SubSeq(amount, 1, Len(amount) - d))
        \o "."
        \o to_string(IF Len(amount) <= d THEN Zeros(d - Len(amount)) \o amount
                     ELSE SubSeq(amount, Len(amount) - d + 1, Len(amount)))

\* C11: the balance text of a successful Bitcoin lookup is satoshis / 10^8
\* with exactly 8 fraction digits, that of a successful Tron lookup is
\* sun / 10^6 with exactly 6 fraction digits, for every u64 amount.
C11_ExactDecimal ==
    (pc = "done" /\ fn \in RestEntryPoints /\ result.ok) =>
        /\ locals.some
        /\ result.val.balance = ExactFixed(locals.val, IF fn = "bitcoin" THEN 8 ELSE 6)

\* the first record of the member `data` of the body holds a balance
FirstHasBalance(body) ==
    /\ "balance" \in DOMAIN body.doc.v["data"].v[1].v
    /\ body.doc.v["data"].v[1].v["balance"] # JNull

\* C12: a 2xx Tron response that deserializes always gives a success tagged
\* tron/TRX; with `success` false or an empty `data` list the balance is
\* "0.000000"; otherwise the amount is the `balance` of the first record, 0
\* when that record has none.
C12_TronZeroBalance ==
    (/\ pc = "done"
     /\ fn = "tron"
     /\ Answered
     /\ response.status \in 200..299
     /\ de_AccountResponse(response.body).ok) =>
        /\ result.ok
        /\ result.val.network = "tron"
        /\ result.val.denomination = "TRX"
        /\ locals.some
        /\ locals.val = BigZero => result.val.balance = "0.000000"
        /\ IF ~response.body.doc.v["success"].v \/ response.body.doc.v["data"].v = <<>>
           THEN locals.val = BigZero
           ELSE IF FirstHasBalance(response.body)
                THEN locals.val = response.body.doc.v["data"].v[1].v["balance"].v
                ELSE locals.val = BigZero

\* {"success":true,"data":[]}: a success with balance 0.000000
C12_Witness ==
    /\ pc = "done"
    /\ fn = "tron"
    /\ Answered
    /\ response.status = 200
    /\ response.body.readable
    /\ response.body.raw = "{\"success\":true,\"data\":[]}"
    /\ result.ok
    /\ result.val.balance = "0.000000"

(***************************************************************************)
(* The network-name parser on its own                                      *)
(***************************************************************************)
\* enum Network
Network == {"Bitcoin", "Ethereum"}

\* impl Display for Network
Network_fmt(n) ==
    CASE n = "Bitcoin" -> "bitcoin"
      [] n = "Ethereum" -> "ethereum"

\* impl FromStr for Network
Network_from_str(s) ==
    LET Match(lowered) ==
            CASE lowered \in {"bitcoin", "btc"} -> Ok("Bitcoin")
              [] lowered \in {"ethereum", "eth"} -> Ok("Ethereum")
              [] OTHER -> Err("Unsupported network: " \o s)
    IN  Match(to_lowercase(s))

char_to_uppercase(c) ==
    IF \E i \in 1..Len(LowerCase) : CharAt(LowerCase, i) = c
    THEN CharAt(UpperCase, CHOOSE i \in 1..Len(LowerCase) : CharAt(LowerCase, i) = c)
    ELSE c

\* s in every mix of upper and lower case
RECURSIVE CaseVariants(_)
CaseVariants(s) ==
    IF s = "" THEN {""}
    ELSE {c \o r : c \in {SubSeq(s, 1, 1), char_to_uppercase(SubSeq(s, 1, 1))},
                   r \in CaseVariants(SubSeq(s, 2, Len(s)))}

Tokens ==
    UNION {CaseVariants(t) : t \in {"btc", "eth", "trx", "tron", "base", "matic"}}
    \cup {Network_fmt(n) : n \in Network}
    \cup { "Bitcoin", "BITCOIN", "BitCoin", "Ethereum", "ETHEREUM", "polygon", "Polygon",
           "POLYGON", "arbitrum", "Arbitrum", "arb", "", " bitcoin", "bitcoin ", "bit coin",
           "dogecoin", "btc1", "ether", "bitcoin,ethereum", "solana" }

InitNet ==
    /\ token \in Tokens
    /\ parsed = Pending
    /\ pc = "idle" /\ fn = "none" /\ args = <<>> /\ address = <<>> /\ requests = <<>>
    /\ response = NoResponse /\ phases = <<>> /\ locals = NoAmount /\ result = Pending
    /\ vfn = "none" /\ vin = "" /\ vout = Pending
    /\ wei = BigZero /\ eth = None
    /\ tasks = <<>>

\* cli.network.parse()
Parse ==
    /\ parsed = Pending
    /\ parsed' = Network_from_str(token)
    /\ UNCHANGED <<token, lookupVars, validatorVars, converterVars, joinVars>>

NextNet == Parse

SpecNet == InitNet /\ [][NextNet]_vars

\* the chains of the specification, their canonical names and aliases
SpecChains == {"Bitcoin", "Ethereum", "Polygon", "Arbitrum", "Tron", "Base"}

NamesOf(c) ==
    CASE c = "Bitcoin" -> {"bitcoin", "btc"}
      [] c = "Ethereum" -> {"ethereum", "eth"}
      [] c = "Polygon" -> {"polygon"}
      [] c = "Arbitrum" -> {"arbitrum"}
      [] c = "Tron" -> {"tron"}
      [] c = "Base" -> {"base"}

\* C13: in any letter case, the canonical name and the aliases of each of
\* Bitcoin, Ethereum, Polygon, Arbitrum, Tron and Base parse to that chain,
\* and every other token fails with an "Unsupported network" error.
C13_NetworkParser ==
    parsed # Pending =>
        /\ \A c \in SpecChains : to_lowercase(token) \in NamesOf(c) => parsed = Ok(c)
        /\ (\A c \in SpecChains : to_lowercase(token) \notin NamesOf(c)) =>
               /\ ~parsed.ok
               /\ Contains(parsed.err, "Unsupported network")

(***************************************************************************)
(* Lookups joined together (tokio::join!): the futures are polled in any   *)
(* order, each one advancing from one await to its next.  A future holds   *)
(* its own arguments, locals and reqwest::Client; the modules have no      *)
(* static or shared state.                                                 *)
(***************************************************************************)
NJoined == 2

\* the future of entry point f called with the arguments a, not yet polled
NewTask(f, a) ==
    [pc |-> "idle", fn |-> f, args |-> a, address |-> <<>>, requests |-> <<>>,
     response |-> NoResponse, phases |-> <<>>, locals |-> NoAmount, result |-> Pending]

poll_SharedFailure(ts, i, t) ==
    [j \in DOMAIN ts |->
        IF j = i THEN t
        ELSE IF t.pc = "done" /\ ~t.result.ok /\ ts[j].pc # "done"
             THEN [ts[j] EXCEPT !.pc = "done", !.result = t.result]
             ELSE ts[j]]

\* the joined futures after future i has advanced to t
poll(ts, i, t) == [ts EXCEPT ![i] = t]

JoinCalls ==
    { <<"bitcoin", <<"1A1zP1eP5QGefi2DMPTfTL5SLmv7DivfNa">>>>,
      <<"bitcoin", <<"invalid_bitcoin_address">>>>,
      <<"ethereum", <<"0xd8dA6BF26964aF9D7eEd9e03E53415D37aA96045">>>> }

JoinStatuses == {200, 500}

JoinBodies(f) ==
    IF f = "bitcoin" THEN {BlockstreamBody(<<1,5,0,0,0,0,0,0,0>>, BigZero)}
    ELSE {Body("{\"jsonrpc\":\"2.0\",\"id\":1,\"result\":\"0xde0b6b3a7640000\"}",
               JObj([jsonrpc |-> JStr("2.0"), id |-> JInt(FALSE, <<1>>),
                     result |-> JStr("0xde0b6b3a7640000")]))}

InitJoin ==
    /\ tasks \in [1..NJoined -> {NewTask(c[1], c[2]) : c \in JoinCalls}]
    /\ pc = "idle" /\ fn = "none" /\ args = <<>> /\ address = <<>> /\ requests = <<>>
    /\ response = NoResponse /\ phases = <<>> /\ locals = NoAmount /\ result = Pending
    /\ vfn = "none" /\ vin = "" /\ vout = Pending
    /\ wei = BigZero /\ eth = None
    /\ token = "" /\ parsed = Pending

\* future i is polled for the first time: it runs up to send().await
JoinCall(i) ==
    /\ tasks[i].pc = "idle"
    /\ LET Leave(s) ==
               tasks' = poll(tasks, i,
                             [tasks[i] EXCEPT !.address = s.address,
                                              !.requests = @ \o s.sent,
                                              !.phases = @ \o s.phases,
                                              !.result = s.result,
                                              !.pc = s.pc])
       IN  Leave(start_lookup(tasks[i].fn, tasks[i].args))
    /\ UNCHANGED <<lookupVars, validatorVars, converterVars, parserVars>>

\* the request of future i cannot be sent
JoinSendFails(i) ==
    /\ tasks[i].pc = "send"
    /\ LET Leave(s) ==
               tasks' = poll(tasks, i, [tasks[i] EXCEPT !.result = s.result, !.pc = s.pc])
       IN  Leave(on_send_error(tasks[i].fn))
    /\ UNCHANGED <<lookupVars, validatorVars, converterVars, parserVars>>

\* the server answers the request of future i
JoinRespond(i, status, body) ==
    /\ tasks[i].pc = "send"
    /\ LET Leave(s) ==
               tasks' = poll(tasks, i,
                             [tasks[i] EXCEPT !.response = [status |-> status, body |-> body],
                                              !.phases = Append(@, "ParseTransport"),
                                              !.result = s.result,
                                              !.pc = s.pc])
       IN  Leave(on_response(tasks[i].fn, status))
    /\ UNCHANGED <<lookupVars, validatorVars, converterVars, parserVars>>

\* future i has read the body of an error response as text
JoinReadText(i) ==
    /\ tasks[i].pc = "text"
    /\ LET Leave(r) == tasks' = poll(tasks, i, [tasks[i] EXCEPT !.result = r, !.pc = "done"])
       IN  Leave(on_text(tasks[i].fn, tasks[i].response.status, tasks[i].response.body))
    /\ UNCHANGED <<lookupVars, validatorVars, converterVars, parserVars>>

\* future i has read and deserialized the body of a 2xx response
JoinReadJson(i) ==
    /\ tasks[i].pc = "json"
    /\ LET Leave(s) ==
               tasks' = poll(tasks, i,
                             [tasks[i] EXCEPT !.result = s.result,
                                              !.phases = @ \o s.phases,
                                              !.locals = s.amount,
                                              !.pc = "done"])
       IN  Leave(on_json(tasks[i].fn, tasks[i].address, tasks[i].response.body))
    /\ UNCHANGED <<lookupVars, validatorVars, converterVars, parserVars>>

NextJoin ==
    \E i \in 1..NJoined :
        \/ JoinCall(i)
        \/ JoinSendFails(i)
        \/ \E status \in JoinStatuses : \E body \in JoinBodies(tasks[i].fn) :
               JoinRespond(i, status, body)
        \/ JoinReadText(i)
        \/ JoinReadJson(i)

SpecJoin == InitJoin /\ [][NextJoin]_vars

\* the outcome of the lookup of future t run alone with the same arguments and
\* the same answer of the server (a response, or none when the send failed)
Alone(t) ==
    LET Started(s) ==
            IF s.pc = "done" THEN s.result
            ELSE IF t.response = NoResponse THEN on_send_error(t.fn).result
            ELSE LET Checked(r) ==
                         CASE r.pc = "done" -> r.result
                           [] r.pc = "text" -> on_text(t.fn, t.response.status, t.response.body)
                           [] OTHER -> on_json(t.fn, s.address, t.response.body).result
                 IN  Checked(on_response(t.fn, t.response.status))
    IN  Started(start_lookup(t.fn, t.args))

C14_Outcomes ==
    \A i \in DOMAIN tasks :
        /\ tasks[i].pc = "done" <=> tasks[i].result # Pending
        /\ tasks[i].pc = "done" => tasks[i].result = Alone(tasks[i])
        /\ Len(tasks[i].requests) <= 1

C14_Step ==
    \E i \in DOMAIN tasks :
        /\ tasks[i].pc # "done"
        /\ \A j \in DOMAIN tasks \ {i} : tasks'[j] = tasks[j]

HexDigitValue(c) ==
    CHOOSE v \in 0..15 : c \in {SubSeq("0123456789abcdef", v + 1, v + 1),
                               SubSeq("0123456789ABCDEF", v + 1, v + 1)}

\* the digits lo..hi of h read after the number acc
RECURSIVE HexFold(_, _, _, _)
HexFold(h, lo, hi, acc) ==
    IF lo > hi THEN acc
    ELSE IF lo = hi
         THEN BigAdd(BigMul16(acc), BigOfSmall(HexDigitValue(SubSeq(h, lo, lo))))
         ELSE LET mid == (lo + hi) \div 2
                  Then(x) == Strict(x, HexFold(h, mid + 1, hi, x))
              IN  Then(HexFold(h, lo, mid, acc))

\* the decimal digits of the number the hexadecimal digits h denote
HexValue(h) == HexFold(h, 1, Len(h), <<0>>)

\* `0x` and 1 to 64 hexadecimal digits: an amount of 0 .. 2^256 - 1
IsWeiText(s) == HasPrefix(s, "0x") /\ Len(s) \in 3..66 /\ IsHexText(SubSeq(s, 3, Len(s)))

\* the balance text of a successful EVM lookup
BalanceText == IF fn = "erc20" THEN result.val ELSE result.val.balance

\* the EVM lookup got a 2xx response without `error` whose `result` is the
\* text of a wei amount
GotWei ==
    /\ pc = "done"
    /\ fn \in EvmEntryPoints
    /\ Answered
    /\ response.status \in 200..299
    /\ de_JsonRpcResponse(response.body).ok
    /\ ~BodyHas(response.body, "error")
    /\ BodyHas(response.body, "result")
    /\ IsWeiText(response.body.doc.v["result"].v)

\* C15: for every wei amount of 0 .. 2^256 - 1 in `result` the EVM lookup
\* succeeds and its balance text is exactly the amount / 10^18.
C15_FullRange ==
    GotWei =>
        /\ result.ok
        /\ IsDecimal18(BalanceText)
        /\ SameNumber(Scaled(BalanceText),
                      HexValue(SubSeq(response.body.doc.v["result"].v, 3,
                                      Len(response.body.doc.v["result"].v))))

(***************************************************************************)
(* C16: the tags and the address of a successful Balance                   *)
(***************************************************************************)
\* the network and denomination tags the specification fixes per entry point
FixedTags(f) ==
    CASE f = "bitcoin" -> <<"bitcoin", "BTC">>
      [] f = "ethereum" -> <<"ethereum", "ETH">>
      [] f = "polygon" -> <<"polygon", "MATIC">>
      [] f = "arbitrum" -> <<"arbitrum", "ETH">>
      [] OTHER -> <<"tron", "TRX">>

\* s holds no upper-case letter
NoUpperCase(s) == \A i \in 1..Len(s) : ~Contains(UpperCase, SubSeq(s, i, i))

\* s and t are the same text up to the case of their letters
SameUpToCase(s, t) ==
    /\ Len(s) = Len(t)
    /\ \A i \in 1..Len(s) :
           char_to_uppercase(SubSeq(s, i, i)) = char_to_uppercase(SubSeq(t, i, i))

\* the input of an EVM lookup with the prefix `0x` supplied when it has none
Prefixed(a) == IF HasPrefix(a, "0x") \/ HasPrefix(a, "0X") THEN a ELSE "0x" \o a

\* C16: every successful balance lookup returns a Balance whose network and
\* denomination are the fixed tags of its entry point (bitcoin/BTC,
\* ethereum/ETH, polygon/MATIC, arbitrum/ETH, tron/TRX) and whose address is
\* the validated address: the unchanged input for Bitcoin, and for the EVM
\* chains the normalized form (`0x`, 42 characters, no upper-case letter, the
\* input's own digits), also when the input had no prefix or mixed case.
C16_BalanceTags ==
    (pc = "done" /\ fn # "erc20" /\ result.ok) =>
        /\ <<result.val.network, result.val.denomination>> = FixedTags(fn)
        /\ fn = "bitcoin" => result.val.address = args[1]
        /\ fn \in {"ethereum", "polygon", "arbitrum"} =>
               /\ Exact0x40(result.val.address)
               /\ NoUpperCase(result.val.address)
               /\ SameUpToCase(result.val.address, Prefixed(args[1]))
        /\ fn = "tron" =>
               /\ Len(result.val.address) = 34
               /\ Contains(args[1], result.val.address)

\* an EVM lookup whose input had upper-case digits or no prefix has succeeded
C16_Witness ==
    /\ pc = "done"
    /\ fn \in {"ethereum", "polygon", "arbitrum"}
    /\ args[1] \in {"0x742d35Cc6634C0532925a3b844Bc454e4438f44e",
                    "0X742D35CC6634C0532925A3B844BC454E4438F44E",
                    "742d35cc6634c0532925a3b844bc454e4438f44e"}
    /\ result.ok
    /\ result.val.address = "0x742d35cc6634c0532925a3b844bc454e4438f44e"
    /\ result.val.denomination = FixedTags(fn)[2]

(***************************************************************************)
(* C17: the eth_call request of get_erc20_balance                          *)
(***************************************************************************)
\* a is accepted as an EVM address: 40 hexadecimal digits, with `0x`, `0X` or
\* no prefix
ValidEvmInput(a) ==
    /\ Len(Prefixed(a)) = 42
    /\ IsHexText(SubSeq(Prefixed(a), 3, 42))

\* n is the normalized form of the input a
NormalizedOf(n, a) == Exact0x40(n) /\ NoUpperCase(n) /\ SameUpToCase(n, Prefixed(a))

\* the selector of balanceOf(address) followed by the 12 zero bytes of padding
CallDataHead == "0x70a08231" \o "000000000000000000000000"

\* d is the call data of balanceOf for the wallet input w
CallDataOf(d, w) ==
    /\ Len(d) = 74
    /\ SubSeq(d, 1, 34) = CallDataHead
    /\ NormalizedOf("0x" \o SubSeq(d, 35, 74), w)

\* C17: for every pair of valid token and wallet addresses get_erc20_balance
\* issues one request, a JSON-RPC `eth_call` whose first parameter has `to` =
\* the normalized token address and `data` = "0x" + 70a08231 + 24 zero hex
\* digits + the 40 lower-case hex digits of the wallet (74 characters), and
\* whose second parameter is "latest"; the call data is the same for every
\* token address, and no request is issued for any other pair.
C17_CallData ==
    (fn = "erc20") =>
        /\ (requests # <<>>) <=> (ValidEvmInput(args[1]) /\ ValidEvmInput(args[2]))
        /\ requests # <<>> =>
               /\ Len(requests) = 1
               /\ requests[1].json.some
               /\ requests[1].json.val.method = "eth_call"
               /\ Len(requests[1].json.val.params) = 2
               /\ requests[1].json.val.params[2] = JStr("latest")
               /\ requests[1].json.val.params[1].t = "obj"
               /\ DOMAIN requests[1].json.val.params[1].v = {"to", "data"}
               /\ requests[1].json.val.params[1].v.to.t = "str"
               /\ NormalizedOf(requests[1].json.val.params[1].v.to.v, args[1])
               /\ requests[1].json.val.params[1].v.data.t = "str"
               /\ CallDataOf(requests[1].json.val.params[1].v.data.v, args[2])

\* the request for a mixed-case token and a wallet written without prefix
C17_Witness ==
    /\ fn = "erc20"
    /\ args = <<"0x742d35Cc6634C0532925a3b844Bc454e4438f44e",
                "af88d065e77c8cc2239327c5edb3a432268e5831">>
    /\ Len(requests) = 1
    /\ requests[1].json.val.params[1].v.to.v
           = "0x742d35cc6634c0532925a3b844bc454e4438f44e"
    /\ requests[1].json.val.params[1].v.data.v
           = CallDataHead \o "af88d065e77c8cc2239327c5edb3a432268e5831"

====
